---------------------------- MODULE Spec2Model ----------------------------
(***************************************************************************)
(* A model of the intent-engine middle-end (mazharm/intent-engine): the    *)
(* in-memory IntentStore, the validation pipeline (reference resolution    *)
(* with cycle detection, type checking, policy and security analysis), the *)
(* obligation engine, the generation orchestrator and the verify pipeline. *)
(*                                                                         *)
(* Conventions.  Option<T> is a sequence of length 0 (None) or 1 (Some).   *)
(* A Rust HashMap is a TLA+ function; whenever the code iterates one, the  *)
(* iteration order is an input of the operator (a sequence enumerating the *)
(* keys), chosen nondeterministically by the action that runs the code.    *)
(***************************************************************************)
EXTENDS Integers, Sequences, FiniteSets, TLC

VARIABLES
    by_id,          \* IntentStore.by_id        : id -> document
    by_kind_name,   \* IntentStore.by_kind_name : <<kind, name>> -> id
    by_name,        \* IntentStore.by_name      : name -> sequence of ids
    ret,            \* what the last operation returned
    disk            \* the project directory: .intent/model, gen and .intent/locks

storeVars == <<by_id, by_kind_name, by_name>>
vars == <<by_id, by_kind_name, by_name, ret, disk>>

(***************************************************************************)
(* Generic helpers                                                         *)
(***************************************************************************)
None == <<>>
Some(v) == <<v>>
IsSome(o) == Len(o) = 1
Unwrap(o) == o[1]

Range(s) == {s[i] : i \in DOMAIN s}

\* All sequences enumerating the finite set S without repetition.
Perms(S) ==
    {s \in [1..Cardinality(S) -> S] : \A i, j \in 1..Cardinality(S) : (s[i] = s[j]) => (i = j)}

RECURSIVE Flatten(_)
Flatten(ss) == IF ss = <<>> THEN <<>> ELSE Head(ss) \o Flatten(Tail(ss))

\* The sequence <<f(s[1]), ..., f(s[n])>>.
MapSeq(f(_), s) == [i \in DOMAIN s |-> f(s[i])]

(***************************************************************************)
(* Intent documents (model/document.rs)                                    *)
(***************************************************************************)
Kinds == {"Type", "Endpoint", "Workflow", "Service", "ContractTest", "Migration"}

\* A string is the sequence of its lexical pieces: identifiers and the
\* punctuation "<", ">", "::", ",".  Name("Refund") is the string "Refund".
Name(s) == <<s>>

\* str::contains for a piece of punctuation.
Contains(str, piece) == \E i \in DOMAIN str : str[i] = piece

\* IntentDocument with the fields the middle-end reads.
Doc(id, kind, name, spec) == [id |-> id, kind |-> kind, name |-> name, spec |-> spec]

\* The spec `{}` that IntentDocument::new creates: no as_*_spec() parses it.
EmptySpec == [ok |-> FALSE]

(***************************************************************************)
(* IntentStore (parser/loader.rs)                                          *)
(***************************************************************************)
EmptyFn == [x \in {} |-> x]

\* The function f, tabulated once (the model checker otherwise re-evaluates a function
\* constructor's body at every application).
Eval(f) == f @@ EmptyFn

\* IntentStore::new
NewStore == [by_id |-> EmptyFn, by_kind_name |-> EmptyFn, by_name |-> EmptyFn]

\* add as it would be if it did not record the id under the document's name.
add_without_by_name(S, doc) ==
    LET key == <<doc.kind, doc.name>> IN
    IF doc.id \in DOMAIN S.by_id
    THEN [ok |-> FALSE, err |-> "DuplicateId", store |-> S]
    ELSE IF key \in DOMAIN S.by_kind_name
    THEN [ok |-> FALSE, err |-> "DuplicateName", store |-> S]
    ELSE [ok |-> TRUE, err |-> "",
          store |-> [by_kind_name |-> [k \in DOMAIN S.by_kind_name \cup {key} |->
                                          IF k = key THEN doc.id ELSE S.by_kind_name[k]],
                     by_name |-> [n \in DOMAIN S.by_name \cup {doc.name} |->
                                     IF n \in DOMAIN S.by_name THEN S.by_name[n]
                                     ELSE <<doc.id>>],
                     by_id |-> [i \in DOMAIN S.by_id \cup {doc.id} |->
                                   IF i = doc.id THEN doc ELSE S.by_id[i]]]]

\* A variant of add without the (kind, name) check.
add_without_name_check(S, doc) ==
    LET key == <<doc.kind, doc.name>> IN
    IF doc.id \in DOMAIN S.by_id
    THEN [ok |-> FALSE, err |-> "DuplicateId", store |-> S]
    ELSE [ok |-> TRUE, err |-> "",
          store |-> [by_kind_name |-> [k \in DOMAIN S.by_kind_name \cup {key} |->
                                          IF k = key THEN doc.id ELSE S.by_kind_name[k]],
                     by_name |-> [n \in DOMAIN S.by_name \cup {doc.name} |->
                                     IF n \in DOMAIN S.by_name
                                     THEN IF n = doc.name THEN Append(S.by_name[n], doc.id)
                                                          ELSE S.by_name[n]
                                     ELSE <<doc.id>>],
                     by_id |-> [i \in DOMAIN S.by_id \cup {doc.id} |->
                                   IF i = doc.id THEN doc ELSE S.by_id[i]]]]

\* A variant of add that checks the (kind, name) after inserting the document.
add_checking_name_after_insert(S, doc) ==
    LET key == <<doc.kind, doc.name>> IN
    IF doc.id \in DOMAIN S.by_id
    THEN [ok |-> FALSE, err |-> "DuplicateId", store |-> S]
    ELSE IF key \in DOMAIN S.by_kind_name
    THEN [ok |-> FALSE, err |-> "DuplicateName",
          store |-> [S EXCEPT !.by_id = [i \in DOMAIN S.by_id \cup {doc.id} |->
                                            IF i = doc.id THEN doc ELSE S.by_id[i]]]]
    ELSE [ok |-> TRUE, err |-> "",
          store |-> [by_kind_name |-> [k \in DOMAIN S.by_kind_name \cup {key} |->
                                          IF k = key THEN doc.id ELSE S.by_kind_name[k]],
                     by_name |-> [n \in DOMAIN S.by_name \cup {doc.name} |->
                                     IF n \in DOMAIN S.by_name
                                     THEN IF n = doc.name THEN Append(S.by_name[n], doc.id)
                                                          ELSE S.by_name[n]
                                     ELSE <<doc.id>>],
                     by_id |-> [i \in DOMAIN S.by_id \cup {doc.id} |->
                                   IF i = doc.id THEN doc ELSE S.by_id[i]]]]

\* IntentStore::add: the result and the store after the call.
add(S, doc) ==
    LET key == <<doc.kind, doc.name>> IN
    IF doc.id \in DOMAIN S.by_id
    THEN [ok |-> FALSE, err |-> "DuplicateId", store |-> S]
    ELSE IF key \in DOMAIN S.by_kind_name
    THEN [ok |-> FALSE, err |-> "DuplicateName", store |-> S]
    ELSE [ok |-> TRUE, err |-> "",
          store |-> [by_kind_name |-> [k \in DOMAIN S.by_kind_name \cup {key} |->
                                          IF k = key THEN doc.id ELSE S.by_kind_name[k]],
                     by_name |-> [n \in DOMAIN S.by_name \cup {doc.name} |->
                                     IF n \in DOMAIN S.by_name
                                     THEN IF n = doc.name THEN Append(S.by_name[n], doc.id)
                                                          ELSE S.by_name[n]
                                     ELSE <<doc.id>>],
                     by_id |-> [i \in DOMAIN S.by_id \cup {doc.id} |->
                                   IF i = doc.id THEN doc ELSE S.by_id[i]]]]

\* The store held in the state variables.
Store == [by_id |-> by_id, by_kind_name |-> by_kind_name, by_name |-> by_name]

\* IntentStore::get
get(S, id) == IF id \in DOMAIN S.by_id THEN Some(S.by_id[id]) ELSE None

\* IntentStore::get_by_kind_name
get_by_kind_name(S, kind, name) ==
    IF <<kind, name>> \in DOMAIN S.by_kind_name
    THEN get(S, S.by_kind_name[<<kind, name>>])
    ELSE None

\* IntentStore::len
len(S) == Cardinality(DOMAIN S.by_id)

\* The documents of the store (IntentStore::iter, as a set).
StoreDocs(S) == {S.by_id[i] : i \in DOMAIN S.by_id}

\* One call store.add(doc) on the store in the state.
AddDoc(doc) ==
    LET r == add(Store, doc) IN
    /\ by_id' = r.store.by_id
    /\ by_kind_name' = r.store.by_kind_name
    /\ by_name' = r.store.by_name
    /\ ret' = [op |-> "add", doc |-> doc, ok |-> r.ok, err |-> r.err]
    /\ UNCHANGED disk

\* A project directory with no intent files, nothing generated and no lock files.
EmptyDisk == [model |-> EmptyFn, gen |-> EmptyFn, locks |-> EmptyFn]

InitStore ==
    /\ by_id = NewStore.by_id
    /\ by_kind_name = NewStore.by_kind_name
    /\ by_name = NewStore.by_name
    /\ ret = [op |-> "new"]
    /\ disk = EmptyDisk

(***************************************************************************)
(* Type expressions (model/types.rs)                                       *)
(***************************************************************************)
\* TypeRef values: primitives, containers and Named(name).
Prim(p) == [t |-> p]
Named(name) == [t |-> "named", name |-> name]
Array(inner) == [t |-> "array", inner |-> inner]
Optional(inner) == [t |-> "optional", inner |-> inner]
Map(k, v) == [t |-> "map", key |-> k, value |-> v]

\* TypeRef::get_named_references
RECURSIVE get_named_references(_)
get_named_references(ty) ==
    CASE ty.t = "named" -> <<ty.name>>
      [] ty.t = "array" -> get_named_references(ty.inner)
      [] ty.t = "map" -> get_named_references(ty.key) \o get_named_references(ty.value)
      [] ty.t = "optional" -> get_named_references(ty.inner)
      [] OTHER -> <<>>

\* FieldDef
Field(ty, required) == [field_type |-> ty, required |-> required]

(***************************************************************************)
(* Per-kind specs (model/specs.rs, model/types.rs).  ok is whether the     *)
(* matching as_*_spec() deserialises the spec.  HashMap-typed members are  *)
(* functions from their keys.                                              *)
(***************************************************************************)
\* TypeSpec
TypeSpec(fields) == [ok |-> TRUE, fields |-> fields]

\* WorkflowSpec
WorkflowSpec(input, output, context, steps) ==
    [ok |-> TRUE, input |-> input, output |-> output, context |-> context, steps |-> steps]

\* WorkflowStep::Effect(EffectStep)
EffectStep(effect, service, operation, table, topic, output_binding) ==
    [kind |-> "Effect", effect |-> effect, service |-> service, operation |-> operation,
     table |-> table, topic |-> topic, output_binding |-> output_binding]

\* WorkflowStep::Transform(TransformStep)
TransformStep(assign) == [kind |-> "Transform", assign |-> assign]

\* EndpointSpec (method, path and errors are not read by the validation phases)
EndpointSpec(input, output, workflow, idempotency_key, timeout_ms, retries_max, authz) ==
    [ok |-> TRUE, input |-> input, output |-> output, workflow |-> workflow,
     idempotency_key |-> idempotency_key, timeout_ms |-> timeout_ms,
     retries_max |-> retries_max, authz |-> authz]

\* ServiceSpec
ServiceSpec(operations) == [ok |-> TRUE, operations |-> operations]

\* ServiceOperation
ServiceOperation(input, output) == [input |-> input, output |-> output]

\* ContractTestSpec
ContractTestSpec(service, operation) ==
    [ok |-> TRUE, service |-> service, operation |-> operation]

\* MigrationSpec (operations is kept as its length)
MigrationSpec(version, table, n_operations) ==
    [ok |-> TRUE, version |-> version, table |-> table, n_operations |-> n_operations]

\* The HashMap-typed member of a document's spec that the phases iterate.
SpecMap(doc) ==
    IF ~doc.spec.ok THEN EmptyFn
    ELSE CASE doc.kind = "Type" -> doc.spec.fields
           [] doc.kind = "Workflow" -> doc.spec.context
           [] doc.kind = "Service" -> doc.spec.operations
           [] OTHER -> EmptyFn

(***************************************************************************)
(* Reference extraction (model/specs.rs)                                   *)
(***************************************************************************)
\* TypeSpec::get_type_references; ko is the order fields.values() yields the keys in.
TypeSpec_get_type_references(spec, ko) ==
    Flatten([i \in DOMAIN ko |-> get_named_references(spec.fields[ko[i]].field_type)])

\* IntentDocument::get_type_references; ko is the iteration order of SpecMap(doc).
get_type_references(doc, ko) ==
    IF ~doc.spec.ok THEN <<>>
    ELSE CASE doc.kind = "Type" -> TypeSpec_get_type_references(doc.spec, ko)
           [] doc.kind = "Workflow" ->
                <<doc.spec.input, doc.spec.output>> \o
                Flatten([i \in DOMAIN ko |-> get_named_references(doc.spec.context[ko[i]])])
           [] doc.kind = "Endpoint" -> <<doc.spec.input, doc.spec.output>>
           [] doc.kind = "Service" ->
                Flatten([i \in DOMAIN ko |-> <<doc.spec.operations[ko[i]].input,
                                               doc.spec.operations[ko[i]].output>>])
           [] OTHER -> <<>>

\* IntentDocument::get_workflow_reference
get_workflow_reference(doc) ==
    IF doc.kind = "Endpoint" /\ doc.spec.ok THEN Some(doc.spec.workflow) ELSE None

\* IntentDocument::get_service_references
get_service_references(doc) ==
    IF ~doc.spec.ok THEN <<>>
    ELSE CASE doc.kind = "Workflow" ->
                Flatten([i \in DOMAIN doc.spec.steps |->
                            IF doc.spec.steps[i].kind = "Effect"
                               /\ doc.spec.steps[i].effect = "HttpCall"
                            THEN doc.spec.steps[i].service
                            ELSE <<>>])
           [] doc.kind = "ContractTest" -> <<doc.spec.service>>
           [] OTHER -> <<>>

(***************************************************************************)
(* Native and engine type names (validation/typecheck.rs)                  *)
(***************************************************************************)
NATIVE_TYPES ==
    {<<"String">>, <<"string">>, <<"str">>, <<"bool">>, <<"i32">>, <<"i64">>,
     <<"u32">>, <<"u64">>, <<"f32">>, <<"f64">>, <<"usize">>, <<"Vec">>, <<"HashMap">>,
     <<"HashSet">>, <<"BTreeMap">>, <<"Option">>, <<"Result">>, <<"Box">>,
     <<"serde_json", "::", "Value">>, <<"JsonValue">>, <<"uuid", "::", "Uuid">>,
     <<"Uuid">>, <<"IntentDocument">>, <<"IntentKind">>, <<"IntentStore">>,
     <<"IntentSummary">>, <<"TypeRef">>, <<"TypeSpec">>, <<"FieldDef">>,
     <<"TypeParseError">>, <<"Expression">>, <<"BinaryOp">>, <<"UnaryOp">>,
     <<"Pattern">>, <<"MatchArm">>, <<"LetBinding">>, <<"FunctionSpec">>,
     <<"FunctionParam">>, <<"ReturnType">>, <<"GenericParam">>, <<"PipelineSpec">>,
     <<"PipelineStage">>, <<"StageErrorStrategy">>, <<"TemplateSpec">>,
     <<"TemplateHelper">>, <<"EnumSpec">>, <<"EnumVariant">>, <<"VariantData">>,
     <<"ModuleSpec">>, <<"ModuleChild">>, <<"CommandSpec">>, <<"CommandArg">>,
     <<"ExitCode">>, <<"TraitSpec">>, <<"TraitMethod">>, <<"AssociatedType">>,
     <<"ServiceSpec">>, <<"ServiceOperation">>, <<"HttpMethod">>, <<"WorkflowSpec">>,
     <<"WorkflowStep">>, <<"TransformStep">>, <<"EffectStep">>, <<"RaiseCondition">>,
     <<"EffectKind">>, <<"OnErrorStrategy">>, <<"EndpointSpec">>,
     <<"EndpointPolicies">>, <<"RetryPolicy">>, <<"BackoffStrategy">>,
     <<"AuthzConfig">>, <<"EndpointError">>, <<"ContractTestSpec">>,
     <<"ContractScenario">>, <<"ContractResponse">>, <<"MigrationSpec">>,
     <<"MigrationOperation">>, <<"ColumnDef">>, <<"ValidationResult">>,
     <<"StructuredError">>, <<"StructuredLocation">>, <<"Severity">>,
     <<"GenerationResult">>, <<"VerificationResult">>, <<"Obligation">>,
     <<"ObligationType">>, <<"ObligationStatus">>, <<"ObligationSeverity">>,
     <<"SemanticDiffResult">>, <<"SemanticChange">>, <<"DiffCategory">>,
     <<"DiffSeverity">>, <<"IntentConfig">>, <<"ProjectConfig">>,
     <<"GenerationConfig">>, <<"RuntimeConfig">>}

\* is_native_or_engine_type.  The prefix tests of the code ("Vec<", "array<", ...)
\* all contain '<', so they are subsumed by the second test.
is_native_or_engine_type(type_name) ==
    \/ type_name \in NATIVE_TYPES
    \/ Contains(type_name, "<") \/ Contains(type_name, "::")

(***************************************************************************)
(* Diagnostics (validation/result.rs, model/error.rs)                      *)
(***************************************************************************)
\* StructuredError: its code, its message (the format string's fixed text and its
\* arguments) and the path of its location (None when there is no location; a
\* path is the sequence of its fixed text and its arguments).
Diag(code, msg, path) == [code |-> code, msg |-> msg, path |-> path]

\* ValidationResult::new
NewResult == [errors |-> <<>>, warnings |-> <<>>]

(***************************************************************************)
(* Iteration orders.  One run of a phase iterates the store's by_id map    *)
(* (docs), each document's HashMap-typed spec member (maps) and the keys   *)
(* of the dependency graph (keys) in orders the hasher fixes.              *)
(***************************************************************************)
Orders(S) ==
    {[docs |-> d, maps |-> m, keys |-> k] :
        d \in Perms(DOMAIN S.by_id),
        m \in {f \in [DOMAIN S.by_id ->
                         UNION {Perms(DOMAIN SpecMap(S.by_id[i])) : i \in DOMAIN S.by_id}] :
                  \A i \in DOMAIN S.by_id : f[i] \in Perms(DOMAIN SpecMap(S.by_id[i]))},
        k \in Perms(DOMAIN S.by_id)}

(***************************************************************************)
(* Reference resolution (validation/resolve.rs)                            *)
(***************************************************************************)
\* The type-reference loop of resolve_references over the names refs: the ids
\* pushed to deps and the errors added, in order.
ResolveTypeNames(S, refs) ==
    [deps |-> Flatten([i \in DOMAIN refs |->
                 IF is_native_or_engine_type(refs[i])
                    \/ ~IsSome(get_by_kind_name(S, "Type", refs[i]))
                 THEN <<>> ELSE <<Unwrap(get_by_kind_name(S, "Type", refs[i])).id>>]),
     errors |-> Flatten([i \in DOMAIN refs |->
                 IF is_native_or_engine_type(refs[i])
                    \/ IsSome(get_by_kind_name(S, "Type", refs[i]))
                 THEN <<>>
                 ELSE <<Diag("E005", <<"Unknown type reference", refs[i]>>, Some(<<"$.spec">>))>>])]

\* The workflow-reference step of resolve_references for the Option w.
ResolveWorkflowName(S, w) ==
    IF ~IsSome(w) THEN [deps |-> <<>>, errors |-> <<>>]
    ELSE IF IsSome(get_by_kind_name(S, "Workflow", Unwrap(w)))
    THEN [deps |-> <<Unwrap(get_by_kind_name(S, "Workflow", Unwrap(w))).id>>, errors |-> <<>>]
    ELSE [deps |-> <<>>,
          errors |-> <<Diag("E005", <<"Unknown workflow reference", Unwrap(w)>>,
                            Some(<<"$.spec.workflow">>))>>]

\* The service-reference loop of resolve_references over the names refs.
ResolveServiceNames(S, refs) ==
    [deps |-> Flatten([i \in DOMAIN refs |->
                 IF IsSome(get_by_kind_name(S, "Service", refs[i]))
                 THEN <<Unwrap(get_by_kind_name(S, "Service", refs[i])).id>> ELSE <<>>]),
     errors |-> Flatten([i \in DOMAIN refs |->
                 IF IsSome(get_by_kind_name(S, "Service", refs[i])) THEN <<>>
                 ELSE <<Diag("E005", <<"Unknown service reference", refs[i]>>,
                             Some(<<"$.spec">>))>>])]

\* deps and errors of one document from those of its three reference groups.
ConcatResolved(t, w, v) ==
    [deps |-> t.deps \o w.deps \o v.deps, errors |-> t.errors \o w.errors \o v.errors]

\* One iteration of the document loop of resolve_references.
ResolveDoc(S, doc, ko) ==
    ConcatResolved(ResolveTypeNames(S, get_type_references(doc, ko)),
                   ResolveWorkflowName(S, get_workflow_reference(doc)),
                   ResolveServiceNames(S, get_service_references(doc)))

\* The state of the cycle search on entering and on leaving a node.
dfs_enter(node, st) ==
    [visited |-> st.visited \cup {node}, rec_stack |-> st.rec_stack \cup {node},
     path |-> Append(st.path, node), cycles |-> st.cycles]

dfs_leave(node, st) ==
    [visited |-> st.visited, rec_stack |-> st.rec_stack \ {node},
     path |-> SubSeq(st.path, 1, Len(st.path) - 1), cycles |-> st.cycles]

\* A variant of position that starts every reported cycle at the root of the path.
position_of_root(path, dep) == 1

\* path.iter().position(|x| x == dep)
position(path, dep) ==
    CHOOSE k \in DOMAIN path : path[k] = dep /\ \A j \in 1..(k - 1) : path[j] # dep

\* detect_cycle_dfs and its loop over deps[i..]; st is the record of the four
\* structures the code passes by mutable reference.
RECURSIVE detect_cycle_dfs(_, _, _), dfs_deps(_, _, _, _)
detect_cycle_dfs(node, graph, st) ==
    dfs_leave(node,
              IF node \in DOMAIN graph.dependencies
              THEN dfs_deps(graph.dependencies[node], 1, graph, dfs_enter(node, st))
              ELSE dfs_enter(node, st))

dfs_deps(deps, i, graph, st) ==
    IF i > Len(deps) THEN st
    ELSE dfs_deps(deps, i + 1, graph,
                  IF deps[i] \notin st.visited
                  THEN detect_cycle_dfs(deps[i], graph, st)
                  ELSE IF deps[i] \in st.rec_stack
                  THEN [st EXCEPT !.cycles =
                           Append(st.cycles,
                                  SubSeq(st.path, position(st.path, deps[i]), Len(st.path)))]
                  ELSE st)

\* The loop of detect_circular_references over keys[i..].
RECURSIVE dfs_roots(_, _, _, _)
dfs_roots(keys, i, graph, st) ==
    IF i > Len(keys) THEN st
    ELSE dfs_roots(keys, i + 1, graph,
                   IF keys[i] \notin st.visited
                   THEN detect_cycle_dfs(keys[i], graph, st)
                   ELSE st)

\* detect_circular_references; keys is the order graph.dependencies.keys() yields.
detect_circular_references(graph, keys) ==
    dfs_roots(keys, 1, graph,
              [visited |-> {}, rec_stack |-> {}, path |-> <<>>, cycles |-> <<>>]).cycles

\* The ResolvedGraph built by the document loop; per[i] is ResolveDoc of docs[i].
BuildGraph(docs, per) ==
    [dependencies |->
        Eval([id \in Range(docs) |-> per[CHOOSE i \in DOMAIN docs : docs[i] = id].deps]),
     dependents |->
        Eval([t \in UNION {Range(per[i].deps) : i \in DOMAIN docs} |->
                Flatten([i \in DOMAIN docs |->
                    Flatten([k \in DOMAIN per[i].deps |->
                                IF per[i].deps[k] = t THEN <<docs[i]>> ELSE <<>>])])])]

\* The E006 errors of resolve_references for the detected cycles.
CycleErrors(S, cycles) ==
    [k \in DOMAIN cycles |->
        Diag("E006", <<"Circular reference detected",
                       [j \in DOMAIN cycles[k] |-> S.by_id[cycles[k][j]].name]>>, None)]

\* resolve_references from the per-document results and the graph.
ResolveReport(S, o, per, graph) ==
    [graph |-> graph,
     result |-> [errors |-> Flatten([i \in DOMAIN per |-> per[i].errors]) \o
                            CycleErrors(S, detect_circular_references(graph, o.keys)),
                 warnings |-> <<>>]]

ResolveWith(S, o, per) == ResolveReport(S, o, per, BuildGraph(o.docs, per))

\* resolve_references: the ResolvedGraph and the ValidationResult.
resolve_references(S, o) ==
    ResolveWith(S, o, Eval([i \in DOMAIN o.docs |->
                               ResolveDoc(S, S.by_id[o.docs[i]], o.maps[o.docs[i]])]))

(***************************************************************************)
(* Type checking (validation/typecheck.rs)                                 *)
(***************************************************************************)
\* location(doc, path)
location(doc, path) == Some(path)

\* The diagnostics pushed by one guarded add_error or add_warning.
DiagIf(cond, diag) == IF cond THEN <<diag>> ELSE <<>>

\* A ValidationResult holding only errors.
OnlyErrors(errs) == [errors |-> errs, warnings |-> <<>>]

\* The keys of a HashMap of at most one entry, in iteration order.
KeysOf(f) == CHOOSE s \in Perms(DOMAIN f) : TRUE

\* typecheck_type; ko is the iteration order of spec.fields.
typecheck_type(doc, S, ko) ==
    IF ~doc.spec.ok
    THEN OnlyErrors(<<Diag("E001", <<"Failed to parse Type spec">>, location(doc, <<"$.spec">>))>>)
    ELSE OnlyErrors(Flatten([i \in DOMAIN ko |->
            LET refs == get_named_references(doc.spec.fields[ko[i]].field_type) IN
            Flatten([k \in DOMAIN refs |->
                DiagIf(~is_native_or_engine_type(refs[k])
                          /\ ~IsSome(get_by_kind_name(S, "Type", refs[k])),
                       Diag("E005", <<"Unknown type in field", refs[k], ko[i]>>,
                            location(doc, <<"$.spec.fields.", ko[i], ".type">>)))])]))

\* The diagnostics of typecheck_workflow for step i (steps are numbered from 0).
typecheck_step(doc, S, i) ==
    LET step == doc.spec.steps[i]
        n == ToString(i - 1) IN
    IF step.kind = "Transform"
    THEN [errors |-> <<>>,
          warnings |-> Flatten([k \in DOMAIN KeysOf(step.assign) |->
              DiagIf(KeysOf(step.assign)[k] \notin DOMAIN doc.spec.context,
                     Diag("E009", <<"Assignment target is not declared in context",
                                    KeysOf(step.assign)[k]>>,
                          location(doc, <<"$.spec.steps[", n, "].assign.",
                                          KeysOf(step.assign)[k]>>)))])]
    ELSE [errors |->
              IF step.effect # "HttpCall" THEN <<>>
              ELSE IF IsSome(step.service)
              THEN DiagIf(~IsSome(get_by_kind_name(S, "Service", Unwrap(step.service))),
                          Diag("E005", <<"Unknown service", Unwrap(step.service)>>,
                               location(doc, <<"$.spec.steps[", n, "].service">>)))
              ELSE <<Diag("E002", <<"HttpCall effect requires 'service' field">>,
                          location(doc, <<"$.spec.steps[", n, "]">>))>>,
          warnings |->
              DiagIf(IsSome(step.output_binding)
                        /\ Unwrap(step.output_binding) \notin DOMAIN doc.spec.context,
                     Diag("E009", <<"Output binding is not declared in context",
                                    Unwrap(step.output_binding)>>,
                          location(doc, <<"$.spec.steps[", n, "].output_binding">>)))]

\* typecheck_workflow; ko is the iteration order of spec.context.
typecheck_workflow(doc, S, ko) ==
    IF ~doc.spec.ok
    THEN OnlyErrors(<<Diag("E001", <<"Failed to parse Workflow spec">>,
                           location(doc, <<"$.spec">>))>>)
    ELSE [errors |->
              DiagIf(~IsSome(get_by_kind_name(S, "Type", doc.spec.input)),
                     Diag("E005", <<"Unknown input type", doc.spec.input>>,
                          location(doc, <<"$.spec.input">>))) \o
              DiagIf(~IsSome(get_by_kind_name(S, "Type", doc.spec.output)),
                     Diag("E005", <<"Unknown output type", doc.spec.output>>,
                          location(doc, <<"$.spec.output">>))) \o
              Flatten([i \in DOMAIN ko |->
                  LET refs == get_named_references(doc.spec.context[ko[i]]) IN
                  Flatten([k \in DOMAIN refs |->
                      DiagIf(~IsSome(get_by_kind_name(S, "Type", refs[k])),
                             Diag("E005", <<"Unknown type in context field", refs[k], ko[i]>>,
                                  location(doc, <<"$.spec.context.", ko[i]>>)))])]) \o
              Flatten([i \in DOMAIN doc.spec.steps |-> typecheck_step(doc, S, i).errors]),
          warnings |->
              Flatten([i \in DOMAIN doc.spec.steps |-> typecheck_step(doc, S, i).warnings])]

\* typecheck_endpoint
typecheck_endpoint(doc, S) ==
    IF ~doc.spec.ok
    THEN OnlyErrors(<<Diag("E001", <<"Failed to parse Endpoint spec">>,
                           location(doc, <<"$.spec">>))>>)
    ELSE LET input_type == get_by_kind_name(S, "Type", doc.spec.input) IN
         OnlyErrors(
              DiagIf(~IsSome(input_type),
                     Diag("E005", <<"Unknown input type", doc.spec.input>>,
                          location(doc, <<"$.spec.input">>))) \o
              DiagIf(~IsSome(get_by_kind_name(S, "Type", doc.spec.output)),
                     Diag("E005", <<"Unknown output type", doc.spec.output>>,
                          location(doc, <<"$.spec.output">>))) \o
              DiagIf(~IsSome(get_by_kind_name(S, "Workflow", doc.spec.workflow)),
                     Diag("E005", <<"Unknown workflow", doc.spec.workflow>>,
                          location(doc, <<"$.spec.workflow">>))) \o
              DiagIf(/\ IsSome(doc.spec.idempotency_key)
                     /\ IsSome(input_type)
                     /\ Unwrap(input_type).spec.ok
                     /\ Unwrap(doc.spec.idempotency_key) \notin DOMAIN Unwrap(input_type).spec.fields,
                     Diag("E009", <<"Idempotency key not found in input type",
                                    Unwrap(doc.spec.idempotency_key), doc.spec.input>>,
                          location(doc, <<"$.spec.idempotency_key">>))))

\* typecheck_service; ko is the iteration order of spec.operations.
typecheck_service(doc, S, ko) ==
    IF ~doc.spec.ok
    THEN OnlyErrors(<<Diag("E001", <<"Failed to parse Service spec">>,
                           location(doc, <<"$.spec">>))>>)
    ELSE OnlyErrors(Flatten([i \in DOMAIN ko |->
              DiagIf(~IsSome(get_by_kind_name(S, "Type", doc.spec.operations[ko[i]].input)),
                     Diag("E005", <<"Unknown input type in operation",
                                    doc.spec.operations[ko[i]].input, ko[i]>>,
                          location(doc, <<"$.spec.operations.", ko[i], ".input">>))) \o
              DiagIf(~IsSome(get_by_kind_name(S, "Type", doc.spec.operations[ko[i]].output)),
                     Diag("E005", <<"Unknown output type in operation",
                                    doc.spec.operations[ko[i]].output, ko[i]>>,
                          location(doc, <<"$.spec.operations.", ko[i], ".output">>)))]))

\* typecheck_contract_test
typecheck_contract_test(doc, S) ==
    IF ~doc.spec.ok
    THEN OnlyErrors(<<Diag("E001", <<"Failed to parse ContractTest spec">>,
                           location(doc, <<"$.spec">>))>>)
    ELSE LET service == get_by_kind_name(S, "Service", doc.spec.service) IN
         IF ~IsSome(service)
         THEN OnlyErrors(<<Diag("E005", <<"Unknown service", doc.spec.service>>,
                                location(doc, <<"$.spec.service">>))>>)
         ELSE OnlyErrors(
                  DiagIf(/\ Unwrap(service).spec.ok
                         /\ doc.spec.operation \notin DOMAIN Unwrap(service).spec.operations,
                         Diag("E005", <<"Unknown operation on service",
                                        doc.spec.operation, doc.spec.service>>,
                              location(doc, <<"$.spec.operation">>))))

\* typecheck_migration
typecheck_migration(doc) ==
    IF ~doc.spec.ok
    THEN OnlyErrors(<<Diag("E001", <<"Failed to parse Migration spec">>,
                           location(doc, <<"$.spec">>))>>)
    ELSE OnlyErrors(
              DiagIf(doc.spec.version = 0,
                     Diag("E002", <<"Migration version must be > 0">>,
                          location(doc, <<"$.spec.version">>))) \o
              DiagIf(doc.spec.table = "",
                     Diag("E002", <<"Migration table name is required">>,
                          location(doc, <<"$.spec.table">>))) \o
              DiagIf(doc.spec.n_operations = 0,
                     Diag("E002", <<"Migration must have at least one operation">>,
                          location(doc, <<"$.spec.operations">>))))

\* The match of typecheck on doc.kind, for the six domain kinds.
typecheck_doc(doc, S, ko) ==
    CASE doc.kind = "Type" -> typecheck_type(doc, S, ko)
      [] doc.kind = "Workflow" -> typecheck_workflow(doc, S, ko)
      [] doc.kind = "Endpoint" -> typecheck_endpoint(doc, S)
      [] doc.kind = "Service" -> typecheck_service(doc, S, ko)
      [] doc.kind = "ContractTest" -> typecheck_contract_test(doc, S)
      [] doc.kind = "Migration" -> typecheck_migration(doc)

\* The ValidationResult a loop over the documents builds from per-document ones.
Collect(per) ==
    [errors |-> Flatten([i \in DOMAIN per |-> per[i].errors]),
     warnings |-> Flatten([i \in DOMAIN per |-> per[i].warnings])]

\* typecheck
typecheck(S, o) ==
    Collect([i \in DOMAIN o.docs |-> typecheck_doc(S.by_id[o.docs[i]], S, o.maps[o.docs[i]])])

(***************************************************************************)
(* Effect analysis (validation/effects.rs)                                 *)
(***************************************************************************)
\* The Effect steps of a document that analyze_effects reads: those of a
\* Workflow whose spec parses.
EffectSteps(doc) ==
    IF doc.kind = "Workflow" /\ doc.spec.ok
    THEN {doc.spec.steps[i] : i \in {j \in DOMAIN doc.spec.steps : doc.spec.steps[j].kind = "Effect"}}
    ELSE {}

\* A variant of WritesTable that also counts reads.
TouchesTable(e) == e.effect \in {"DbWrite", "DbDelete", "DbRead"}

\* matches!(e.effect, EffectKind::DbWrite | EffectKind::DbDelete)
WritesTable(e) == e.effect \in {"DbWrite", "DbDelete"}

\* analyze_effects: the two HashSets of the EffectAnalysis.
analyze_effects(S) ==
    [tables_written |->
        {Unwrap(e.table) : e \in {x \in UNION {EffectSteps(d) : d \in StoreDocs(S)} :
                                      WritesTable(x) /\ IsSome(x.table)}},
     services_called |->
        {<<Unwrap(e.service), Unwrap(e.operation)>> :
            e \in {x \in UNION {EffectSteps(d) : d \in StoreDocs(S)} :
                      x.effect = "HttpCall" /\ IsSome(x.service) /\ IsSome(x.operation)}}]

(***************************************************************************)
(* Policy analysis (validation/policies.rs)                                *)
(***************************************************************************)
\* Whether the workflow an endpoint names exists, parses and has a step with
\* an effect among effects (has_http_effects, has_db_write).
WorkflowHasEffect(S, workflow, effects) ==
    LET workflow_doc == get_by_kind_name(S, "Workflow", workflow) IN
    /\ IsSome(workflow_doc)
    /\ Unwrap(workflow_doc).spec.ok
    /\ \E i \in DOMAIN Unwrap(workflow_doc).spec.steps :
          /\ Unwrap(workflow_doc).spec.steps[i].kind = "Effect"
          /\ Unwrap(workflow_doc).spec.steps[i].effect \in effects

\* The body of the loop of analyze_policies for one document.
analyze_policies_doc(doc, S) ==
    IF doc.kind # "Endpoint" \/ ~doc.spec.ok THEN NewResult
    ELSE [errors |->
              DiagIf(IsSome(doc.spec.timeout_ms) /\ Unwrap(doc.spec.timeout_ms) = 0,
                     Diag("E008", <<"timeout_ms must be > 0">>,
                          Some(<<"$.spec.policies.timeout_ms">>))),
          warnings |->
              DiagIf(WorkflowHasEffect(S, doc.spec.workflow, {"HttpCall"})
                        /\ ~IsSome(doc.spec.timeout_ms),
                     Diag("E008", <<"Endpoint has HTTP effects but no timeout_ms policy", doc.name>>,
                          Some(<<"$.spec.policies">>))) \o
              DiagIf(IsSome(doc.spec.timeout_ms) /\ Unwrap(doc.spec.timeout_ms) > 60000,
                     Diag("E008", <<"timeout_ms is very high (> 60s)", Unwrap(doc.spec.timeout_ms)>>,
                          Some(<<"$.spec.policies.timeout_ms">>))) \o
              DiagIf(IsSome(doc.spec.retries_max) /\ Unwrap(doc.spec.retries_max) = 0,
                     Diag("E008", <<"retries.max of 0 means no retries">>,
                          Some(<<"$.spec.policies.retries.max">>))) \o
              DiagIf(IsSome(doc.spec.retries_max) /\ Unwrap(doc.spec.retries_max) > 10,
                     Diag("E008", <<"retries.max is very high", Unwrap(doc.spec.retries_max)>>,
                          Some(<<"$.spec.policies.retries.max">>))) \o
              DiagIf(WorkflowHasEffect(S, doc.spec.workflow, {"DbWrite", "DbDelete"})
                        /\ ~IsSome(doc.spec.idempotency_key),
                     Diag("E008", <<"Endpoint has database writes but no idempotency_key", doc.name>>,
                          Some(<<"$.spec">>)))]

\* analyze_policies
analyze_policies(S, o) ==
    Collect([i \in DOMAIN o.docs |-> analyze_policies_doc(S.by_id[o.docs[i]], S)])

(***************************************************************************)
(* Security checks (validation/security.rs)                                *)
(***************************************************************************)
PII_PATTERNS ==
    <<"email", "phone", "ssn", "social_security", "address", "name", "first_name",
      "last_name", "date_of_birth", "dob", "credit_card", "card_number", "cvv",
      "password", "secret">>

\* field_name.to_lowercase().contains(pattern).  The field names of the model are
\* lower-case words none of which is a proper part of another, so one contains
\* a pattern exactly when it is that pattern.
LowerContains(field_name, pattern) == field_name = pattern

\* check_endpoint_security; authz is the Option of the scope, a string of pieces.
check_endpoint_security(doc) ==
    IF ~doc.spec.ok THEN <<>>
    ELSE DiagIf(~IsSome(doc.spec.authz),
                Diag("W001", <<"Endpoint has no authorization configured", doc.name>>,
                     Some(<<"$.spec">>))) \o
         DiagIf(IsSome(doc.spec.authz) /\ Unwrap(doc.spec.authz) \in {Name("*"), Name("admin")},
                Diag("W002", <<"Endpoint has broad authorization scope", doc.name,
                               Unwrap(doc.spec.authz)>>,
                     Some(<<"$.spec.authz.scope">>)))

\* check_type_pii; ko is the order spec.fields.keys() yields.  The warning names
\* the first pattern of PII_PATTERNS the field name contains.
check_type_pii(doc, ko) ==
    IF ~doc.spec.ok THEN <<>>
    ELSE Flatten([i \in DOMAIN ko |->
            LET hits == {k \in DOMAIN PII_PATTERNS : LowerContains(ko[i], PII_PATTERNS[k])} IN
            DiagIf(hits # {},
                   Diag("W003", <<"Field in type may contain PII", ko[i], doc.name,
                                  PII_PATTERNS[CHOOSE k \in hits : \A j \in hits : k <= j]>>,
                        Some(<<"$.spec.fields.", ko[i]>>)))])

\* check_security
check_security(S, o) ==
    [errors |-> <<>>,
     warnings |-> Flatten([i \in DOMAIN o.docs |->
         LET doc == S.by_id[o.docs[i]] IN
         (IF doc.kind = "Endpoint" THEN check_endpoint_security(doc) ELSE <<>>) \o
         (IF doc.kind = "Type" THEN check_type_pii(doc, o.maps[o.docs[i]]) ELSE <<>>)])]

(***************************************************************************)
(* The validation pipeline (validation/mod.rs)                             *)
(***************************************************************************)
\* A variant of merge that keeps only the warnings of the merged result.
merge_warnings_only(r, other) ==
    [errors |-> r.errors, warnings |-> r.warnings \o other.warnings]

\* ValidationResult::merge
merge(r, other) ==
    [errors |-> r.errors \o other.errors, warnings |-> r.warnings \o other.warnings]

\* Phases 2 to 5 of validate_all, merged into result (phase 3, the effect
\* analysis, contributes nothing to the result).
LaterPhases(S, o, result) ==
    merge(merge(merge(result, typecheck(S, o)), analyze_policies(S, o)), check_security(S, o))

\* A variant of validate_all that skips only type checking after resolution errors.
validate_all_skipping_typecheck(S, o) ==
    LET result == merge(NewResult, resolve_references(S, o).result) IN
    IF result.errors # <<>>
    THEN merge(merge(result, analyze_policies(S, o)), check_security(S, o))
    ELSE LaterPhases(S, o, result)

\* validate_all
validate_all(S, o) ==
    LET result == merge(NewResult, resolve_references(S, o).result) IN
    IF result.errors # <<>> THEN result ELSE LaterPhases(S, o, result)

(***************************************************************************)
(* Obligations (validation/obligations.rs)                                 *)
(***************************************************************************)
\* Bound of the pool Uuid::new_v4 draws obligation ids from.
MaxUuid == 3
Uuids == 1..MaxUuid

\* The sequences of n distinct ids Uuid::new_v4 can return in n calls.
FreshUuids(n) == {u \in [1..n -> Uuids] : \A i, j \in 1..n : (u[i] = u[j]) => (i = j)}

\* What one run of check_obligations draws from its environment: the iteration
\* orders of the two HashSets of the effect analysis and the ids Uuid::new_v4
\* returns (ObligationDraws), and the iteration order of the store.
ObligationDraws(S) ==
    {[services |-> sv, tables |-> tb, uuids |-> u] :
        sv \in Perms(analyze_effects(S).services_called),
        tb \in Perms(analyze_effects(S).tables_written),
        u \in FreshUuids(Cardinality(analyze_effects(S).services_called)
                         + Cardinality(analyze_effects(S).tables_written))}

\* The draws x of a run that iterates the store in the order docs.
WithDocs(x, docs) ==
    [docs |-> docs, services |-> x.services, tables |-> x.tables, uuids |-> x.uuids]

ObligationOrders(S) ==
    {WithDocs(x, d) : x \in ObligationDraws(S), d \in Perms(DOMAIN S.by_id)}

\* A variant of ResolvesContractTest that compares the service only.
ResolvesService(doc, service, operation) ==
    doc.kind = "ContractTest" /\ doc.spec.ok /\ doc.spec.service = service

\* The test of the inner loop for a ContractTest obligation.
ResolvesContractTest(doc, service, operation) ==
    /\ doc.kind = "ContractTest"
    /\ doc.spec.ok
    /\ doc.spec.service = service /\ doc.spec.operation = operation

\* The test of the inner loop for a Migration obligation.
ResolvesMigration(doc, table) ==
    doc.kind = "Migration" /\ doc.spec.ok /\ doc.spec.table = table

\* The id of the first document, in the order docs, among the ids hits: where
\* the inner loop breaks (None when it runs to its end).
FirstOf(docs, hits) ==
    IF \E i \in DOMAIN docs : docs[i] \in hits
    THEN Some(docs[CHOOSE i \in DOMAIN docs :
                      docs[i] \in hits /\ \A j \in 1..(i - 1) : docs[j] \notin hits])
    ELSE None

\* Obligation
Obligation(id, obligation_type, intent_id, description, service_operation, table) ==
    [id |-> id, obligation_type |-> obligation_type, intent_id |-> intent_id,
     status |-> IF IsSome(intent_id) THEN "resolved" ELSE "open",
     severity |-> "HIGH", description |-> description,
     service_operation |-> service_operation, table |-> table]

\* check_obligations
check_obligations(S, o) ==
    [k \in DOMAIN o.services |->
        Obligation(o.uuids[k], "ContractTest",
                   FirstOf(o.docs, {i \in DOMAIN S.by_id :
                       ResolvesContractTest(S.by_id[i], o.services[k][1], o.services[k][2])}),
                   <<"Add contract test for", o.services[k][1], o.services[k][2]>>,
                   Some(o.services[k]), None)] \o
    [k \in DOMAIN o.tables |->
        Obligation(o.uuids[Len(o.services) + k], "Migration",
                   FirstOf(o.docs, {i \in DOMAIN S.by_id :
                       ResolvesMigration(S.by_id[i], o.tables[k])}),
                   <<"Add migration for table", o.tables[k]>>,
                   None, Some(o.tables[k]))]

(***************************************************************************)
(* Intent files (parser/loader.rs, parser/canonical.rs).  The text of a    *)
(* file is the JSON value it holds together with its layout; a path under  *)
(* .intent/model is the number it has in the sorted order of the paths.    *)
(***************************************************************************)
FileText(layout, value) == [layout |-> layout, value |-> value]

\* serde_json::from_str on the text of a well-formed file.
from_str(content) == content.value

\* pretty_canonical
pretty_canonical(value) == FileText("canonical", value)

\* The ascending enumeration of a finite set of numbers.
SortedSeq(S) == CHOOSE s \in Perms(S) : \A i, j \in DOMAIN s : (i < j) => (s[i] < s[j])

\* discover_intent_files
discover_intent_files(D) == SortedSeq(DOMAIN D.model)

\* format_intent_files(None, check_only) as it would be if it never wrote.
format_intent_files_without_write(D, check_only) ==
    LET files == discover_intent_files(D)
        changed(f) == D.model[f] # pretty_canonical(from_str(D.model[f])) IN
    [results |-> [i \in DOMAIN files |-> [path |-> files[i], changed |-> changed(files[i])]],
     disk |-> D]

\* format_intent_files(None, check_only): the FormatResults and the directory
\* after the call.
format_intent_files(D, check_only) ==
    LET files == discover_intent_files(D)
        changed(f) == D.model[f] # pretty_canonical(from_str(D.model[f])) IN
    [results |-> [i \in DOMAIN files |-> [path |-> files[i], changed |-> changed(files[i])]],
     disk |-> IF check_only THEN D
              ELSE [D EXCEPT !.model =
                       [f \in DOMAIN D.model |-> pretty_canonical(from_str(D.model[f]))]]]

\* load_intent_file
load_intent_file(D, path) == from_str(D.model[path])

\* The loop of IntentStore::load_from_path over the files w[i..].
RECURSIVE load_files(_, _, _, _)
load_files(D, w, i, S) ==
    IF i > Len(w) THEN [ok |-> TRUE, store |-> S]
    ELSE LET r == add(S, load_intent_file(D, w[i])) IN
         IF r.ok THEN load_files(D, w, i + 1, r.store) ELSE [ok |-> FALSE, store |-> S]

\* IntentStore::load_from_path; w is the order WalkDir yields the files in.
load_from_path(D, w) == load_files(D, w, 1, NewStore)

\* IntentStore::get_by_kind; docs is the order by_id.values() yields the ids in.
get_by_kind(S, kind, docs) ==
    LET ids == SelectSeq(docs, LAMBDA i : S.by_id[i].kind = kind) IN
    [k \in DOMAIN ids |-> S.by_id[ids[k]]]

(***************************************************************************)
(* Generation (codegen/mod.rs, codegen/manifest.rs, codegen/trace.rs).     *)
(* The content generators and GenerationResult are not part of the         *)
(* sources at hand; they are modelled from the specification: a rendered   *)
(* content is a function of the store and of the project configuration.    *)
(***************************************************************************)
\* IntentConfig::load() when there is no intent.toml: the default configuration.
IntentConfig_load ==
    [rust_edition |-> "2021", http_client |-> "reqwest", db_client |-> "sqlx",
     event_client |-> "kafka"]

\* A rendered content: the template and the inputs it was rendered from.
Rendered(template, inputs) == [template |-> template, inputs |-> inputs]

\* The enumeration a generator makes of a set of documents.
SeqOfSet(S) == CHOOSE s \in Perms(S) : TRUE

\* to_snake_case
to_snake_case(name) == <<"snake_case">> \o name

\* A path under gen/, and the path of the file generated for an intent.
GenPath(p) == <<p>>
GenFile(dir, file_name) == <<dir>> \o file_name

DocsOfKind(S, kind) == {d \in StoreDocs(S) : d.kind = kind}

generate_cargo_toml(config) == Rendered("Cargo.toml", {config})
generate_lib_rs(S) == Rendered("lib.rs", StoreDocs(S))
generate_types(S) == Rendered("types.rs", DocsOfKind(S, "Type"))
generate_errors(S) == Rendered("errors.rs", DocsOfKind(S, "Endpoint"))

\* generate_endpoints and generate_workflows: mod.rs and one file per intent.
generate_modules(S, kind) ==
    [mod_rs |-> Rendered("mod.rs", DocsOfKind(S, kind)),
     files |-> [k \in DOMAIN SeqOfSet(DocsOfKind(S, kind)) |->
                   [name |-> to_snake_case(SeqOfSet(DocsOfKind(S, kind))[k].name) \o <<".rs">>,
                    content |-> Rendered("module.rs", {SeqOfSet(DocsOfKind(S, kind))[k]})]]]

generate_endpoints(S) == generate_modules(S, "Endpoint")
generate_workflows(S) == generate_modules(S, "Workflow")

generate_effects(S, config) ==
    [mod_rs |-> Rendered("effects/mod.rs", {config}),
     http_rs |-> Rendered("effects/http.rs", <<DocsOfKind(S, "Service"), config>>),
     db_rs |-> Rendered("effects/db.rs", <<analyze_effects(S).tables_written, config>>),
     events_rs |-> Rendered("effects/events.rs", {config})]

\* GenerationResult::new and GenerationResult::add_file
GenerationResult_new == [files |-> <<>>, matches |-> TRUE]

GenerationResult_add_file(result, path, content, existing) ==
    [files |-> Append(result.files,
                      [path |-> path, matches |-> existing = Some(content),
                       reason |-> IF existing = Some(content) THEN ""
                                  ELSE IF IsSome(existing) THEN "content differs"
                                  ELSE "file missing"]),
     matches |-> result.matches /\ existing = Some(content)]

\* compute_hash: SHA-256, taken to be free of collisions.
compute_hash(content) == <<"sha256", content>>

\* GenManifest::new and GenManifest::add_file
GenManifest_new == [version |-> "1.0", files |-> EmptyFn, source_hashes |-> EmptyFn]

GenManifest_add_file(manifest, path, content, source_intents) ==
    [manifest EXCEPT !.files =
        [q \in DOMAIN manifest.files \cup {path} |->
            IF q = path
            THEN [hash |-> compute_hash(content), source_intents |-> source_intents]
            ELSE manifest.files[q]]]

\* One call of write_or_check with its arguments but the mutable ones.
Job(path, content, source_intents) ==
    [path |-> path, content |-> content, source_intents |-> source_intents]

\* A variant of write_or_check that never writes.
write_or_check_without_write(job, check_only, st) ==
    LET existing == IF job.path \in DOMAIN st.gen THEN Some(st.gen[job.path]) ELSE None IN
    [result |-> GenerationResult_add_file(st.result, job.path, job.content, existing),
     manifest |-> GenManifest_add_file(st.manifest, job.path, job.content, job.source_intents),
     gen |-> st.gen]

\* write_or_check; st holds the gen directory, the result and the manifest.
write_or_check(job, check_only, st) ==
    LET existing == IF job.path \in DOMAIN st.gen THEN Some(st.gen[job.path]) ELSE None IN
    [result |-> GenerationResult_add_file(st.result, job.path, job.content, existing),
     manifest |-> GenManifest_add_file(st.manifest, job.path, job.content, job.source_intents),
     gen |-> IF check_only THEN st.gen
             ELSE [q \in DOMAIN st.gen \cup {job.path} |->
                      IF q = job.path THEN job.content ELSE st.gen[q]]]

\* The ids of a sequence of documents (store.types().iter().map(|d| d.id)).
IdsOf(docs) == [k \in DOMAIN docs |-> docs[k].id]

\* The calls of write_or_check that generate_all makes, in order.
GenJobs(S, config, o) ==
    LET endpoint_ids == IdsOf(get_by_kind(S, "Endpoint", o.docs))
        workflow_ids == IdsOf(get_by_kind(S, "Workflow", o.docs))
        endpoints_output == generate_endpoints(S)
        workflows_output == generate_workflows(S)
        effects_output == generate_effects(S, config) IN
    <<Job(GenPath("gen/Cargo.toml"), generate_cargo_toml(config), <<>>),
      Job(GenPath("gen/src/lib.rs"), generate_lib_rs(S), <<>>),
      Job(GenPath("gen/src/types.rs"), generate_types(S),
          IdsOf(get_by_kind(S, "Type", o.docs))),
      Job(GenPath("gen/src/errors.rs"), generate_errors(S), endpoint_ids),
      Job(GenPath("gen/src/endpoints/mod.rs"), endpoints_output.mod_rs, endpoint_ids)>> \o
    [k \in DOMAIN endpoints_output.files |->
        Job(GenFile("gen/src/endpoints/", endpoints_output.files[k].name),
            endpoints_output.files[k].content, <<>>)] \o
    <<Job(GenPath("gen/src/workflows/mod.rs"), workflows_output.mod_rs, workflow_ids)>> \o
    [k \in DOMAIN workflows_output.files |->
        Job(GenFile("gen/src/workflows/", workflows_output.files[k].name),
            workflows_output.files[k].content, <<>>)] \o
    <<Job(GenPath("gen/src/effects/mod.rs"), effects_output.mod_rs, <<>>),
      Job(GenPath("gen/src/effects/http.rs"), effects_output.http_rs, <<>>),
      Job(GenPath("gen/src/effects/db.rs"), effects_output.db_rs, <<>>),
      Job(GenPath("gen/src/effects/events.rs"), effects_output.events_rs, <<>>)>>

\* The calls jobs[i..] of write_or_check.
RECURSIVE run_jobs(_, _, _, _)
run_jobs(jobs, i, check_only, st) ==
    IF i > Len(jobs) THEN st
    ELSE run_jobs(jobs, i + 1, check_only, write_or_check(jobs[i], check_only, st))

\* TraceMap::new and TraceMap::add
TraceMap_new == [intent_to_rust |-> EmptyFn, rust_to_intent |-> EmptyFn]

TraceMap_add(trace, intent_id, file, line, symbol) ==
    LET entry == [file |-> file, line |-> line, symbol |-> symbol] IN
    [intent_to_rust |->
        [k \in DOMAIN trace.intent_to_rust \cup {intent_id} |->
            IF k # intent_id THEN trace.intent_to_rust[k]
            ELSE IF k \in DOMAIN trace.intent_to_rust
            THEN Append(trace.intent_to_rust[k], entry)
            ELSE <<entry>>],
     rust_to_intent |->
        [k \in DOMAIN trace.rust_to_intent \cup {<<file, line>>} |->
            IF k = <<file, line>> THEN intent_id ELSE trace.rust_to_intent[k]]]

\* The calls calls[i..] of TraceMap::add.
RECURSIVE add_traces(_, _, _)
add_traces(calls, i, trace) ==
    IF i > Len(calls) THEN trace
    ELSE add_traces(calls, i + 1,
                    TraceMap_add(trace, calls[i].id, calls[i].file, calls[i].line,
                                 calls[i].symbol))

\* generate_trace_map; docs is the iteration order of the store.
generate_trace_map(S, docs) ==
    LET types == get_by_kind(S, "Type", docs)
        endpoints == get_by_kind(S, "Endpoint", docs)
        workflows == get_by_kind(S, "Workflow", docs) IN
    add_traces(
        [k \in DOMAIN types |->
            [id |-> types[k].id, file |-> GenPath("gen/src/types.rs"),
             line |-> 10 + 10 * (k - 1), symbol |-> types[k].name]] \o
        [k \in DOMAIN endpoints |->
            [id |-> endpoints[k].id,
             file |-> GenFile("gen/src/endpoints/", to_snake_case(endpoints[k].name) \o <<".rs">>),
             line |-> 10, symbol |-> to_snake_case(endpoints[k].name)]] \o
        [k \in DOMAIN workflows |->
            [id |-> workflows[k].id,
             file |-> GenFile("gen/src/workflows/", to_snake_case(workflows[k].name) \o <<".rs">>),
             line |-> 10, symbol |-> to_snake_case(workflows[k].name)]],
        1, TraceMap_new)

\* serde_json::to_string_pretty of a lock file's value.
to_string_pretty(value) == [json |-> value]

\* generate_all on the project directory D: the GenerationResult and the
\* directory after the call.  o is the iteration order of the store and ob
\* what check_obligations draws.
generate_all(S, check_only, D, o, ob) ==
    LET st == run_jobs(GenJobs(S, IntentConfig_load, o), 1, check_only,
                       [gen |-> D.gen, result |-> GenerationResult_new,
                        manifest |-> GenManifest_new]) IN
    [result |-> st.result,
     disk |-> IF check_only THEN D
              ELSE [model |-> D.model,
                    gen |-> st.gen,
                    locks |-> [f \in DOMAIN D.locks \cup
                                     {"gen-manifest.json", "trace-map.json", "obligations.json"} |->
                                 CASE f = "gen-manifest.json" -> to_string_pretty(st.manifest)
                                   [] f = "trace-map.json" ->
                                        to_string_pretty(generate_trace_map(S, o.docs))
                                   [] f = "obligations.json" ->
                                        to_string_pretty(check_obligations(S, ob))
                                   [] OTHER -> D.locks[f]]]]

(***************************************************************************)
(* Commands (cli/commands.rs, main.rs).  A command returns the record of   *)
(* what it did: the steps it ran, whether it returned an error (main then  *)
(* exits with 1) and its exit code.                                        *)
(***************************************************************************)
\* A variant of exit_codes with the codes of the last two failures exchanged.
exit_codes_exchanged ==
    [SUCCESS |-> 0, GENERAL_ERROR |-> 1, VALIDATION_ERROR |-> 2, GENERATION_MISMATCH |-> 5,
     PATCH_CONFLICT |-> 4, OPEN_OBLIGATIONS |-> 3]

\* mod exit_codes
exit_codes ==
    [SUCCESS |-> 0, GENERAL_ERROR |-> 1, VALIDATION_ERROR |-> 2, GENERATION_MISMATCH |-> 3,
     PATCH_CONFLICT |-> 4, OPEN_OBLIGATIONS |-> 5]

\* A variant of high_obligations that looks for MEDIUM severity.
medium_obligations(obligations) ==
    SelectSeq(obligations, LAMBDA ob : ob.severity = "MEDIUM" /\ ob.status = "open")

\* The filter of step 4 of cmd_verify.
high_obligations(obligations) ==
    SelectSeq(obligations, LAMBDA ob : ob.severity = "HIGH" /\ ob.status = "open")

\* What a command returns.
Returned(op, check, steps, err, code, result) ==
    [op |-> op, check |-> check, steps |-> steps, err |-> err, code |-> code,
     matches |-> result.matches, files |-> result.files]

\* A variant of cmd_gen that generates whatever validate_all reports.
cmd_gen_without_validation(D, check, L, o, ob) ==
    IF ~L.ok
    THEN [ret |-> Returned("gen", check, <<"load">>, TRUE, exit_codes.GENERAL_ERROR,
                           GenerationResult_new),
          disk |-> D]
    ELSE LET g == generate_all(L.store, check, D, o, WithDocs(ob, o.docs)) IN
         [ret |-> Returned("gen", check, <<"load", "validate", "gen">>, FALSE,
                           IF check /\ ~g.result.matches
                           THEN exit_codes.GENERATION_MISMATCH ELSE exit_codes.SUCCESS,
                           g.result),
          disk |-> g.disk]

\* cmd_gen on the directory D; L is what load_from_default_path returns.
cmd_gen(D, check, L, o, ob) ==
    IF ~L.ok
    THEN [ret |-> Returned("gen", check, <<"load">>, TRUE, exit_codes.GENERAL_ERROR,
                           GenerationResult_new),
          disk |-> D]
    ELSE IF validate_all(L.store, o).errors # <<>>
    THEN [ret |-> Returned("gen", check, <<"load", "validate">>, FALSE,
                           exit_codes.VALIDATION_ERROR, GenerationResult_new),
          disk |-> D]
    ELSE LET g == generate_all(L.store, check, D, o, WithDocs(ob, o.docs)) IN
         [ret |-> Returned("gen", check, <<"load", "validate", "gen">>, FALSE,
                           IF check /\ ~g.result.matches
                           THEN exit_codes.GENERATION_MISMATCH ELSE exit_codes.SUCCESS,
                           g.result),
          disk |-> g.disk]

\* cmd_verify on the directory D; L is what load_from_default_path returns.
cmd_verify(D, L, o, ob) ==
    IF \E k \in DOMAIN format_intent_files(D, TRUE).results :
          format_intent_files(D, TRUE).results[k].changed
    THEN Returned("verify", TRUE, <<"fmt">>, FALSE, exit_codes.GENERAL_ERROR,
                  GenerationResult_new)
    ELSE IF ~L.ok
    THEN Returned("verify", TRUE, <<"fmt", "validate">>, TRUE, exit_codes.GENERAL_ERROR,
                  GenerationResult_new)
    ELSE IF validate_all(L.store, o).errors # <<>>
    THEN Returned("verify", TRUE, <<"fmt", "validate">>, FALSE, exit_codes.VALIDATION_ERROR,
                  GenerationResult_new)
    ELSE LET g == generate_all(L.store, TRUE, D, o, WithDocs(ob, o.docs)) IN
         IF ~g.result.matches
         THEN Returned("verify", TRUE, <<"fmt", "validate", "gen">>, FALSE,
                       exit_codes.GENERATION_MISMATCH, g.result)
         ELSE IF high_obligations(check_obligations(L.store, WithDocs(ob, o.docs))) # <<>>
         THEN Returned("verify", TRUE, <<"fmt", "validate", "gen", "obligations">>, FALSE,
                       exit_codes.OPEN_OBLIGATIONS, g.result)
         ELSE Returned("verify", TRUE, <<"fmt", "validate", "gen", "obligations">>, FALSE,
                       exit_codes.SUCCESS, g.result)

(***************************************************************************)
(* SpecStore: sequences of IntentStore::add calls on a fresh store         *)
(***************************************************************************)
\* Bounds of the store universe.
MaxId == 3
MaxName == 2

StoreIds == 1..MaxId
NamePool == <<Name("TestType"), Name("Test"), Name("Other"), Name("Extra")>>

\* Documents as the loader tests build them: any id, kind and name, empty spec.
StoreUniverse ==
    {Doc(i, k, NamePool[n], EmptySpec) : i \in StoreIds, k \in {"Type", "Service"}, n \in 1..MaxName}

StoreAdd == \E d \in StoreUniverse : AddDoc(d)

NextStore == StoreAdd

SpecStore == InitStore /\ [][NextStore]_vars

\* C1: after any sequence of add calls the store holds at most one document per
\* id and at most one per (kind, name), and an add whose id or (kind, name) is
\* already held by a stored document returns an error.
C1_StoreUniqueness ==
    /\ [](/\ \A i \in DOMAIN by_id : by_id[i].id = i
          /\ \A i, j \in DOMAIN by_id :
                (by_id[i].kind = by_id[j].kind /\ by_id[i].name = by_id[j].name) => (i = j)
          /\ \A i \in DOMAIN by_id :
                Cardinality({<<n, k>> \in UNION {{n} \X DOMAIN by_name[n] : n \in DOMAIN by_name} :
                                by_name[n][k] = i}) <= 1)
    /\ [][(ret'.op = "add" /\
            \E d \in StoreDocs(Store) :
                d.id = ret'.doc.id \/ (d.kind = ret'.doc.kind /\ d.name = ret'.doc.name))
           => (~ret'.ok /\ ret'.err \in {"DuplicateId", "DuplicateName"})]_vars

\* A duplicate (kind, name) was just rejected by a store that holds two documents.
C1_Witness ==
    /\ ret.op = "add" /\ ~ret.ok /\ ret.err = "DuplicateName"
    /\ len(Store) = 2
    /\ ret.doc.id \notin DOMAIN by_id

(***************************************************************************)
(* SpecResolve: resolve_references over stores of Type intents that refer  *)
(* to one another through their fields                                     *)
(***************************************************************************)
\* Bound: the number of fields of a Type intent of the graph universe.
MaxFields == 2

GraphNames == <<Name("A"), Name("B"), Name("C")>>
FieldPool == <<"f1", "f2", "f3", "f4">>

\* The field maps of the graph universe: up to MaxFields fields, each of a Named
\* type, the referenced names increasing with the field's index.
GraphFieldMaps ==
    {[k \in {FieldPool[i] : i \in DOMAIN m} |->
         Field(Named(GraphNames[m[CHOOSE i \in DOMAIN m : FieldPool[i] = k]]), TRUE)] :
       m \in {x \in UNION {[1..n -> DOMAIN GraphNames] : n \in 0..MaxFields} :
                \A a, b \in DOMAIN x : a < b => x[a] < x[b]}}

GraphUniverse ==
    {Doc(i, "Type", GraphNames[i], TypeSpec(f)) : i \in DOMAIN GraphNames, f \in GraphFieldMaps}

\* The corpus is loaded document by document; documents whose id is already
\* held are the subject of SpecStore.
GraphAdd == \E d \in GraphUniverse : d.id \notin DOMAIN by_id /\ AddDoc(d)

\* One call resolve_references(&store).  The function only reads the store, so
\* running it again before the next add has the same outcomes: it runs once.
Resolve ==
    \E o \in Orders(Store) :
        /\ ret.op = "add"
        /\ ret' = [op |-> "resolve", out |-> resolve_references(Store, o)]
        /\ UNCHANGED <<storeVars, disk>>

NextResolve == GraphAdd \/ Resolve

SpecResolve == InitStore /\ [][NextResolve]_vars

\* The dependency edge a -> b of a ResolvedGraph.
Edge(g, a, b) == a \in DOMAIN g.dependencies /\ b \in Range(g.dependencies[a])

\* c, a sequence of nodes, runs along edges of g and closes on its first node.
IsDirectedCycle(g, c) ==
    /\ Len(c) >= 1
    /\ \A i \in 1..(Len(c) - 1) : Edge(g, c[i], c[i + 1])
    /\ Edge(g, c[Len(c)], c[1])

\* The directed cycles of g that repeat no node (a self-reference has length 1).
SimpleCycles(g) ==
    {c \in UNION {Perms(K) : K \in SUBSET (DOMAIN g.dependencies) \ {{}}} : IsDirectedCycle(g, c)}

\* The sequences of intent names of the E006 errors among errs.
E006Names(errs) == {errs[k].msg[2] : k \in {j \in DOMAIN errs : errs[j].code = "E006"}}

\* The ids of the Type intents a sequence of names refers to.
TypeIds(names) == [k \in DOMAIN names |-> by_kind_name[<<"Type", names[k]>>]]

\* C6 as stated: for every directed cycle of the dependency graph some E006
\* error names (at least) all the intents of that cycle.
C6_EveryCycleNamed ==
    ret.op = "resolve" =>
        \A c \in SimpleCycles(ret.out.graph) :
            \E m \in E006Names(ret.out.result.errors) :
                {by_id[c[i]].name : i \in DOMAIN c} \subseteq Range(m)

\* C6 amended: every E006 error names the intents along a directed cycle of the
\* graph, and for every directed cycle (self-references and cycles sharing nodes
\* included) some E006 error names a cycle that shares an edge with it.
C6_EveryCycleMeetsNamedCycle ==
    ret.op = "resolve" =>
        /\ \A m \in E006Names(ret.out.result.errors) :
                IsDirectedCycle(ret.out.graph, TypeIds(m))
        /\ \A c \in SimpleCycles(ret.out.graph) :
                \E m \in E006Names(ret.out.result.errors) :
                    \E i \in DOMAIN c :
                        /\ c[i] = TypeIds(m)[Len(m)]
                        /\ c[(i % Len(c)) + 1] = TypeIds(m)[1]

\* resolve_references ran on a graph with a self-reference and with two longer
\* cycles over different sets of intents that share a node.
C6_Witness ==
    /\ ret.op = "resolve"
    /\ \E c \in SimpleCycles(ret.out.graph) : Len(c) = 1
    /\ \E c, d \in SimpleCycles(ret.out.graph) :
          /\ Len(c) = 2 /\ Len(d) = 3
          /\ Range(c) \cap Range(d) # {}
    /\ E006Names(ret.out.result.errors) # {}

(***************************************************************************)
(* SpecValidate: validate_all and check_obligations on stores of domain    *)
(* intents                                                                 *)
(***************************************************************************)
\* Bound on the number of documents of a store.
MaxDocs == 3

Http(service, operation) == EffectStep("HttpCall", service, operation, None, None, None)
Db(effect, table) == EffectStep(effect, None, None, Some(table), None, None)

\* The documents that can be added: types, workflows, endpoints, a service,
\* contract tests and migrations, some well-formed and some with dangling
\* references, bad policies or a spec that does not parse.
ValidatePool ==
    <<Doc(1, "Type", Name("A"),
          TypeSpec([email |-> Field(Named(Name("Uuid")), TRUE)])),
      Doc(2, "Type", Name("B"),
          TypeSpec([f1 |-> Field(Array(Named(Name("Missing"))), FALSE)])),
      Doc(3, "Workflow", Name("W"),
          WorkflowSpec(Name("A"), Name("A"), [c1 |-> Named(Name("A"))],
                       <<Http(Some(Name("S")), Some("op")), Db("DbWrite", "t1"),
                         Http(Some(Name("S")), Some("op")), Db("DbRead", "t2")>>)),
      Doc(4, "Workflow", Name("V"),
          WorkflowSpec(Name("A"), Name("A"), EmptyFn,
                       <<Db("DbDelete", "t1"), Db("DbWrite", "t3"),
                         TransformStep([c1 |-> "input.f1"])>>)),
      Doc(5, "Workflow", Name("X"),
          WorkflowSpec(Name("String"), Name("A"), EmptyFn,
                       <<EffectStep("HttpCall", None, Some("op"), None, None, Some("c1")),
                         Http(Some(Name("S")), Some("other"))>>)),
      Doc(6, "Endpoint", Name("E"),
          EndpointSpec(Name("A"), Name("A"), Name("V"), None, Some(70000), Some(3),
                       Some(Name("admin")))),
      Doc(7, "Endpoint", Name("G"),
          EndpointSpec(Name("Missing"), Name("A"), Name("V"), Some("f1"), Some(0), Some(0),
                       None)),
      Doc(8, "Service", Name("S"),
          ServiceSpec([op |-> ServiceOperation(Name("A"), Name("A"))])),
      Doc(9, "ContractTest", Name("CT"), ContractTestSpec(Name("S"), "op")),
      Doc(10, "ContractTest", Name("CU"), ContractTestSpec(Name("S"), "other")),
      Doc(11, "Migration", Name("M"), MigrationSpec(1, "t1", 1)),
      Doc(12, "Migration", Name("N"), MigrationSpec(0, "t2", 0)),
      Doc(13, "Workflow", Name("Y"), EmptySpec)>>

ValidateUniverse == Range(ValidatePool)

ValidateAdd ==
    \E d \in ValidateUniverse :
        /\ d.id \notin DOMAIN by_id
        /\ len(Store) < MaxDocs
        /\ AddDoc(d)

\* One call validate_all(&store).
Validate ==
    \E o \in Orders(Store) :
        /\ ret.op = "add"
        /\ ret' = [op |-> "validate", out |-> validate_all(Store, o)]
        /\ UNCHANGED <<storeVars, disk>>

\* One call check_obligations(&store).
CheckObligations ==
    \E o \in ObligationOrders(Store) :
        /\ ret.op = "add"
        /\ ret' = [op |-> "obligations", out |-> check_obligations(Store, o)]
        /\ UNCHANGED <<storeVars, disk>>

NextValidate == ValidateAdd \/ Validate \/ CheckObligations

SpecValidate == InitStore /\ [][NextValidate]_vars

\* Some iteration order of the store S, for results that do not depend on it.
AnyOrder(S) == CHOOSE o \in Orders(S) : TRUE

\* The diagnostics of a ValidationResult, as a set.
DiagSet(r) == Range(r.errors) \cup Range(r.warnings)

\* Reference resolution reports at least one error on the store S.
ResolutionFails(S) == resolve_references(S, AnyOrder(S)).result.errors # <<>>

\* C4 as stated: when reference resolution reports an error, the result of
\* validate_all holds no type-checker diagnostic but holds every diagnostic of
\* policy analysis and of the security checks for the same store.
C4_SkipsTypeCheckingOnly ==
    (ret.op = "validate" /\ ResolutionFails(Store)) =>
        /\ DiagSet(typecheck(Store, AnyOrder(Store))) \cap DiagSet(ret.out) = {}
        /\ DiagSet(analyze_policies(Store, AnyOrder(Store))) \subseteq DiagSet(ret.out)
        /\ DiagSet(check_security(Store, AnyOrder(Store))) \subseteq DiagSet(ret.out)

\* C4 amended: when reference resolution reports an error, validate_all returns
\* the resolver's result alone; it holds no diagnostic of the type checker, of
\* policy analysis or of the security checks.
C4_ReturnsResolutionResultOnly ==
    (ret.op = "validate" /\ ResolutionFails(Store)) =>
        /\ \E o \in Orders(Store) : ret.out = resolve_references(Store, o).result
        /\ DiagSet(typecheck(Store, AnyOrder(Store))) \cap DiagSet(ret.out) = {}
        /\ DiagSet(analyze_policies(Store, AnyOrder(Store))) \cap DiagSet(ret.out) = {}
        /\ DiagSet(check_security(Store, AnyOrder(Store))) \cap DiagSet(ret.out) = {}

\* validate_all returned for a store on which resolution fails and on which the
\* type checker, policy analysis and the security checks each have a diagnostic.
C4_Witness ==
    /\ ret.op = "validate"
    /\ ResolutionFails(Store)
    /\ typecheck(Store, AnyOrder(Store)).errors # <<>>
    /\ analyze_policies(Store, AnyOrder(Store)).errors # <<>>
    /\ check_security(Store, AnyOrder(Store)).warnings # <<>>

\* The references of every document of S hold: each type reference names a Type
\* of S or is a native/engine name, each workflow reference names a Workflow of
\* S, each service reference names a Service of S.
ReferencesClosed(S) ==
    \A doc \in StoreDocs(S) :
        /\ \A name \in Range(get_type_references(doc, KeysOf(SpecMap(doc)))) :
              \/ \E d \in StoreDocs(S) : d.kind = "Type" /\ d.name = name
              \/ name \in NATIVE_TYPES \/ Contains(name, "<") \/ Contains(name, "::")
        /\ \A name \in Range(get_workflow_reference(doc)) :
              \E d \in StoreDocs(S) : d.kind = "Workflow" /\ d.name = name
        /\ \A name \in Range(get_service_references(doc)) :
              \E d \in StoreDocs(S) : d.kind = "Service" /\ d.name = name

\* C5: whenever validate_all returns a result without errors, every reference of
\* every intent of the store names an intent of the expected kind in the store
\* or is a native/engine name.
C5_ReferenceClosure ==
    (ret.op = "validate" /\ ret.out.errors = <<>>) => ReferencesClosed(Store)

\* validate_all returned without errors for a store in which a workflow calls a
\* service of the store, types are referred to by name, and a field has a
\* native type.
C5_Witness ==
    /\ ret.op = "validate" /\ ret.out.errors = <<>>
    /\ \E doc \in StoreDocs(Store) : get_service_references(doc) # <<>>
    /\ \E doc \in StoreDocs(Store) :
          \E name \in Range(get_type_references(doc, KeysOf(SpecMap(doc)))) :
              name \in NATIVE_TYPES
    /\ \E doc \in StoreDocs(Store) :
          \E name \in Range(get_type_references(doc, KeysOf(SpecMap(doc)))) :
              \E d \in StoreDocs(Store) : d.kind = "Type" /\ d.name = name

\* The steps of the workflows of S whose spec parses.
WorkflowSteps(S) ==
    UNION {Range(d.spec.steps) : d \in {x \in StoreDocs(S) : x.kind = "Workflow" /\ x.spec.ok}}

\* The (service, operation) pairs named by the HttpCall steps of S.
HttpPairs(S) ==
    {<<Unwrap(st.service), Unwrap(st.operation)>> :
        st \in {x \in WorkflowSteps(S) :
                   /\ x.kind = "Effect" /\ x.effect = "HttpCall"
                   /\ IsSome(x.service) /\ IsSome(x.operation)}}

\* The tables named by the steps of S with an effect among effects.
TablesOf(S, effects) ==
    {Unwrap(st.table) :
        st \in {x \in WorkflowSteps(S) :
                   x.kind = "Effect" /\ x.effect \in effects /\ IsSome(x.table)}}

\* The positions of the obligations of type ty in obs.
OfType(obs, ty) == {k \in DOMAIN obs : obs[k].obligation_type = ty}

\* C7: check_obligations returns exactly one ContractTest obligation for each
\* distinct (service, operation) pair named by an HttpCall step, and it is
\* resolved iff the store holds a ContractTest intent with that service and
\* operation, open otherwise.
C7_ContractTestObligations ==
    ret.op = "obligations" =>
        /\ \A p \in HttpPairs(Store) :
              Cardinality({k \in OfType(ret.out, "ContractTest") :
                              ret.out[k].service_operation = Some(p)}) = 1
        /\ \A k \in OfType(ret.out, "ContractTest") :
              /\ IsSome(ret.out[k].service_operation)
              /\ Unwrap(ret.out[k].service_operation) \in HttpPairs(Store)
              /\ ret.out[k].status \in {"open", "resolved"}
              /\ ret.out[k].status = "resolved" <=>
                    \E d \in StoreDocs(Store) :
                        /\ d.kind = "ContractTest" /\ d.spec.ok
                        /\ <<d.spec.service, d.spec.operation>> =
                              Unwrap(ret.out[k].service_operation)

\* check_obligations returned a resolved and an open ContractTest obligation
\* for a store in which one pair is named by more than one HttpCall step.
C7_Witness ==
    /\ ret.op = "obligations"
    /\ \E k, l \in OfType(ret.out, "ContractTest") :
          ret.out[k].status = "resolved" /\ ret.out[l].status = "open"
    /\ \E d \in StoreDocs(Store) :
          /\ d.kind = "Workflow" /\ d.spec.ok
          /\ \E i, j \in DOMAIN d.spec.steps :
                /\ i # j
                /\ d.spec.steps[i].kind = "Effect" /\ d.spec.steps[i].effect = "HttpCall"
                /\ d.spec.steps[i] = d.spec.steps[j]

\* C8: check_obligations returns exactly one Migration obligation, of HIGH
\* severity, for each distinct table named by a DbWrite or DbDelete step and
\* none for any other table, and it is resolved iff some Migration intent of
\* the store targets the table.
C8_MigrationObligations ==
    ret.op = "obligations" =>
        /\ \A t \in TablesOf(Store, {"DbWrite", "DbDelete"}) :
              Cardinality({k \in OfType(ret.out, "Migration") :
                              ret.out[k].table = Some(t)}) = 1
        /\ \A k \in OfType(ret.out, "Migration") :
              /\ IsSome(ret.out[k].table)
              /\ Unwrap(ret.out[k].table) \in TablesOf(Store, {"DbWrite", "DbDelete"})
              /\ ret.out[k].severity = "HIGH"
              /\ ret.out[k].status \in {"open", "resolved"}
              /\ ret.out[k].status = "resolved" <=>
                    \E d \in StoreDocs(Store) :
                        /\ d.kind = "Migration" /\ d.spec.ok
                        /\ d.spec.table = Unwrap(ret.out[k].table)

\* check_obligations returned a resolved and an open Migration obligation for a
\* store with a table written by two steps and a table that is only read.
C8_Witness ==
    /\ ret.op = "obligations"
    /\ \E k, l \in OfType(ret.out, "Migration") :
          ret.out[k].status = "resolved" /\ ret.out[l].status = "open"
    /\ TablesOf(Store, {"DbRead"}) \ TablesOf(Store, {"DbWrite", "DbDelete"}) # {}
    /\ \E d, e \in StoreDocs(Store) :
          /\ d # e
          /\ TablesOf([by_id |-> <<d>>], {"DbWrite"}) \cap
             TablesOf([by_id |-> <<e>>], {"DbDelete"}) # {}

(***************************************************************************)
(* SpecProject: intent files are written into a project directory, and     *)
(* gen, gen --check and verify run on it; generated files get edited.      *)
(***************************************************************************)
\* Bound on the number of intent files of the project.
MaxFiles == 3

\* The intent the file with a given path holds: two independent types, a
\* workflow writing table t1 (valid only next to the first type), a migration of
\* t1, a second intent that takes the name of the first type, and a workflow
\* writing the tables t2 and t1.
ProjectPool ==
    <<Doc(1, "Type", Name("A"), TypeSpec([f1 |-> Field(Prim("string"), TRUE)])),
      Doc(2, "Type", Name("C"), TypeSpec([f1 |-> Field(Prim("uuid"), TRUE)])),
      Doc(3, "Workflow", Name("V"),
          WorkflowSpec(Name("A"), Name("A"), EmptyFn, <<Db("DbWrite", "t1")>>)),
      Doc(4, "Migration", Name("M"), MigrationSpec(1, "t1", 1)),
      Doc(5, "Type", Name("A"), TypeSpec(EmptyFn)),
      Doc(6, "Workflow", Name("X"),
          WorkflowSpec(Name("A"), Name("A"), EmptyFn,
                       <<Db("DbWrite", "t2"), Db("DbWrite", "t1")>>))>>

\* The files of the project of SpecProject.
ProjectFiles == 1..5

\* The layouts an author gives a file: every file can be written in canonical
\* form, the second one also in a compact form.
Layouts(f) == IF f = 2 THEN {"canonical", "compact"} ELSE {"canonical"}

\* An author creates one of the intent files F.
WriteFile(F) ==
    \E f \in F :
        \E layout \in Layouts(f) :
            /\ f \notin DOMAIN disk.model
            /\ Cardinality(DOMAIN disk.model) < MaxFiles
            /\ disk' = [disk EXCEPT !.model =
                           [q \in DOMAIN disk.model \cup {f} |->
                               IF q = f THEN FileText(layout, ProjectPool[f])
                               ELSE disk.model[q]]]
            /\ ret' = [op |-> "write", path |-> f]
            /\ UNCHANGED storeVars

WriteModelFile == WriteFile(ProjectFiles)

\* The results load_from_default_path can have on the directory D.
Loads(D) == {load_from_path(D, w) : w \in Perms(DOMAIN D.model)}

\* A run that does not reach check_obligations draws nothing.
NoDraws == [services |-> <<>>, tables |-> <<>>, uuids |-> <<>>]

\* One run of `intent gen` (check = FALSE) or `intent gen --check`; only the
\* first calls check_obligations.
RunGen(check) ==
    \E L \in Loads(disk) :
        \E o \in Orders(L.store) :
            \E ob \in IF check THEN {NoDraws} ELSE ObligationDraws(L.store) :
                LET r == cmd_gen(disk, check, L, o, ob) IN
                /\ ret' = r.ret
                /\ disk' = r.disk
                /\ UNCHANGED storeVars

Gen == RunGen(FALSE)

GenCheck == RunGen(TRUE)

\* One run of `intent verify`.
Verify ==
    \E L \in Loads(disk) :
        \E o \in Orders(L.store), ob \in ObligationDraws(L.store) :
            /\ ret' = cmd_verify(disk, L, o, ob)
            /\ UNCHANGED <<storeVars, disk>>

\* A generated file with a comment appended by hand.
Edited(content) == [edited |-> content]

\* Someone edits or removes a file under gen/ right after a run of gen that
\* wrote the files or found them matching.
EditGenerated ==
    \E path \in DOMAIN disk.gen, how \in {"modify", "remove"} :
        /\ ret.op = "gen" /\ ~ret.err /\ ret.code = exit_codes.SUCCESS
        /\ disk' = [disk EXCEPT !.gen =
                       IF how = "modify"
                       THEN [disk.gen EXCEPT ![path] = Edited(disk.gen[path])]
                       ELSE [q \in DOMAIN disk.gen \ {path} |-> disk.gen[q]]]
        /\ ret' = [op |-> "edit", path |-> path, how |-> how]
        /\ UNCHANGED storeVars

NextProject == WriteModelFile \/ Gen \/ GenCheck \/ Verify

SpecProject == InitStore /\ [][NextProject]_vars

\* Some intent file of the directory D is not in canonical form.
NeedsFormatting(D) == \E f \in DOMAIN D.model : D.model[f].layout # "canonical"

\* What loading the directory D gives, the files taken in sorted order.
AnyLoad(D) == load_from_path(D, SortedSeq(DOMAIN D.model))

\* validate_all has errors on the store S.
ValidationFails(S) == validate_all(S, AnyOrder(S)).errors # <<>>

\* Every file generated for the store S is in D with the generated content.
FilesMatch(D, S) ==
    \A k \in DOMAIN GenJobs(S, IntentConfig_load, AnyOrder(S)) :
        LET job == GenJobs(S, IntentConfig_load, AnyOrder(S))[k] IN
        job.path \in DOMAIN D.gen /\ D.gen[job.path] = job.content

\* Some table written or deleted by a workflow of S has no Migration intent.
MigrationMissing(S) ==
    \E t \in TablesOf(S, {"DbWrite", "DbDelete"}) :
        ~\E d \in StoreDocs(S) : d.kind = "Migration" /\ d.spec.ok /\ d.spec.table = t

\* Some service operation called by a workflow of S has no ContractTest intent.
ContractTestMissing(S) ==
    \E p \in HttpPairs(S) :
        ~\E d \in StoreDocs(S) :
            d.kind = "ContractTest" /\ d.spec.ok /\ <<d.spec.service, d.spec.operation>> = p

\* C2: cmd_verify runs format-check, validate, generate --check, obligations in
\* this order and returns at the first failing step with that step's code: 1
\* when a file needs formatting, else 2 when validation has errors, else 3 when
\* generated output does not match, else 5 when an obligation is open, else 0;
\* no later step runs after a failed one (a store that fails to load ends the
\* validate step with an error).
C2_VerifyStepsInOrder ==
    ret.op = "verify" =>
        IF NeedsFormatting(disk)
        THEN ret.steps = <<"fmt">> /\ ret.code = 1 /\ ~ret.err
        ELSE IF ~AnyLoad(disk).ok
        THEN ret.steps = <<"fmt", "validate">> /\ ret.err
        ELSE IF ValidationFails(AnyLoad(disk).store)
        THEN ret.steps = <<"fmt", "validate">> /\ ret.code = 2 /\ ~ret.err
        ELSE IF ~FilesMatch(disk, AnyLoad(disk).store)
        THEN ret.steps = <<"fmt", "validate", "gen">> /\ ret.code = 3 /\ ~ret.err
        ELSE /\ ret.steps = <<"fmt", "validate", "gen", "obligations">>
             /\ ~ret.err
             /\ ret.code = IF MigrationMissing(AnyLoad(disk).store)
                              \/ ContractTestMissing(AnyLoad(disk).store)
                           THEN 5 ELSE 0

\* verify stopped at the generate --check step with code 3 on a project that
\* also has an open obligation.
C2_Witness ==
    /\ ret.op = "verify" /\ ret.code = 3 /\ ret.steps = <<"fmt", "validate", "gen">>
    /\ MigrationMissing(AnyLoad(disk).store)

\* C3: cmd_verify returns 0 exactly when no file needs formatting, validation
\* has no errors, every generated file matches and no obligation is HIGH and
\* open; and it returns 5 when the first three hold and a workflow writes or
\* deletes from a table that has no Migration intent.
C3_VerifySuccess ==
    ret.op = "verify" =>
        LET passes3 == /\ ~NeedsFormatting(disk)
                       /\ AnyLoad(disk).ok
                       /\ ~ValidationFails(AnyLoad(disk).store)
                       /\ FilesMatch(disk, AnyLoad(disk).store) IN
        /\ (~ret.err /\ ret.code = 0) <=>
              (/\ passes3
               /\ ~MigrationMissing(AnyLoad(disk).store)
               /\ ~ContractTestMissing(AnyLoad(disk).store))
        /\ (passes3 /\ MigrationMissing(AnyLoad(disk).store)) => (ret.code = 5)

\* verify returned 0 on a project whose workflow writes a table.
C3_Witness ==
    /\ ret.op = "verify" /\ ret.code = 0 /\ ~ret.err
    /\ TablesOf(AnyLoad(disk).store, {"DbWrite", "DbDelete"}) # {}

\* C9 as stated: a write-mode run of gen right after another over the same
\* intent files leaves the generated files and the three lock files as the
\* first run wrote them.
C9_GenerateDeterministic ==
    [][(/\ ret.op = "gen" /\ ~ret.check /\ ~ret.err /\ ret.code = 0
        /\ ret'.op = "gen" /\ ~ret'.check /\ ~ret'.err /\ ret'.code = 0
        /\ disk'.model = disk.model)
       => (disk'.gen = disk.gen /\ disk'.locks = disk.locks)]_vars

(***************************************************************************)
(* SpecDrift: generation and gen --check on a project of a type and a      *)
(* workflow whose generated files get edited or removed by hand.           *)
(***************************************************************************)
\* The files of the project: the first type and the workflow.
DriftFiles == {1, 3}

WriteDriftFile == WriteFile(DriftFiles)

NextDrift == WriteDriftFile \/ Gen \/ GenCheck \/ EditGenerated

SpecDrift == InitStore /\ [][NextDrift]_vars

\* C10: a gen --check right after a write-mode gen over a valid store reports
\* every file as matching and exits 0; a gen --check right after one generated
\* file was modified or removed reports that file as not matching and exits 3;
\* result.matches is the conjunction of the per-file matches.
C10_CheckAfterGenerate ==
    /\ []((ret.op = "gen" /\ ret.check /\ ret.steps = <<"load", "validate", "gen">>) =>
             /\ ret.matches <=> \A k \in DOMAIN ret.files : ret.files[k].matches
             /\ ret.code = IF ret.matches THEN 0 ELSE 3)
    /\ [][(/\ ret.op = "gen" /\ ~ret.check /\ ret.steps = <<"load", "validate", "gen">>
           /\ ret'.op = "gen" /\ ret'.check)
          => (/\ ret'.code = 0 /\ ret'.matches
              /\ ret'.files # <<>>
              /\ \A k \in DOMAIN ret'.files : ret'.files[k].matches)]_vars
    /\ [][(ret.op = "edit" /\ ret'.op = "gen" /\ ret'.check)
          => (/\ ret'.code = 3 /\ ~ret'.matches
              /\ \E k \in DOMAIN ret'.files :
                    ret'.files[k].path = ret.path /\ ~ret'.files[k].matches)]_vars

\* gen --check exited 3 because exactly one generated file, edited by hand,
\* differs from what is generated.
C10_Witness ==
    /\ ret.op = "gen" /\ ret.check /\ ret.code = 3
    /\ \E k \in DOMAIN ret.files :
          /\ ~ret.files[k].matches /\ ret.files[k].reason = "content differs"
          /\ \A j \in DOMAIN ret.files \ {k} : ret.files[j].matches

(***************************************************************************)
(* Semantic diff (diff/categories.rs, diff/semantic.rs).  A description is  *)
(* the tuple of its format string and the values formatted into it.        *)
(***************************************************************************)
\* DiffSeverity with the rank its derived Ord gives.
DiffSeverity == [INFO |-> 0, LOW |-> 1, MEDIUM |-> 2, HIGH |-> 3]

\* DiffCategory as its Display string, the strings in ascending order.
DiffCategory ==
    <<"API Surface", "AuthZ", "Concurrency", "Data Schema", "Effects", "Error Semantics",
      "PII", "Policies">>

\* The position of a category string in the order of str::cmp.
CategoryRank(category) == CHOOSE k \in DOMAIN DiffCategory : DiffCategory[k] = category

\* SemanticChange::new
SemanticChange(category, severity, description) ==
    [category |-> category, severity |-> severity, description |-> description,
     intent_name |-> None, intent_kind |-> None, old_value |-> None, new_value |-> None]

\* SemanticChange::with_intent
with_intent(change, name, kind) ==
    [change EXCEPT !.intent_name = Some(name), !.intent_kind = Some(kind)]

\* SemanticChange::with_values
with_values(change, old, new) ==
    [change EXCEPT !.old_value = Some(old), !.new_value = Some(new)]

\* The elements of the set X in the order the enumeration ord gives them.
InOrder(ord, X) == SelectSeq(ord, LAMBDA x : x \in X)

\* The effect steps of a workflow spec, in step order.
EffectsOf(spec) == SelectSeq(spec.steps, LAMBDA s : s.kind = "Effect")

\* added_intent_severity
added_intent_severity(doc) ==
    CASE doc.kind = "Endpoint" -> "HIGH"
      [] doc.kind = "Workflow" ->
            IF doc.spec.ok /\ \E i \in DOMAIN doc.spec.steps :
                                 /\ doc.spec.steps[i].kind = "Effect"
                                 /\ doc.spec.steps[i].effect = "HttpCall"
            THEN "HIGH" ELSE "MEDIUM"
      [] doc.kind = "Type" -> "LOW"
      [] doc.kind = "Service" -> "MEDIUM"
      [] doc.kind = "ContractTest" -> "INFO"
      [] doc.kind = "Migration" -> "MEDIUM"

\* category_for_kind
category_for_kind(kind) ==
    CASE kind = "Type" -> "Data Schema"
      [] kind = "Endpoint" -> "API Surface"
      [] kind = "Workflow" -> "Effects"
      [] kind = "Service" -> "Effects"
      [] kind = "ContractTest" -> "Effects"
      [] kind = "Migration" -> "Data Schema"

\* The severity both check_new_effects and diff_workflow give an added effect.
effect_severity(effect) ==
    CASE effect = "HttpCall" -> "HIGH"
      [] effect \in {"DbWrite", "DbDelete"} -> "HIGH"
      [] effect = "EmitEvent" -> "MEDIUM"
      [] effect = "DbRead" -> "LOW"

\* check_new_effects
check_new_effects(doc) ==
    IF ~doc.spec.ok THEN <<>>
    ELSE LET es == EffectsOf(doc.spec) IN
         [k \in DOMAIN es |->
             with_intent(SemanticChange("Effects", effect_severity(es[k].effect),
                                        <<"New {} effect in workflow '{}'", es[k].effect,
                                          doc.name>>),
                         doc.name, "Workflow")]

\* Display for TypeRef
RECURSIVE TypeRef_to_string(_)
TypeRef_to_string(ty) ==
    CASE ty.t = "named" -> ty.name
      [] ty.t = "array" -> <<"array", "<">> \o TypeRef_to_string(ty.inner) \o <<">">>
      [] ty.t = "optional" -> <<"optional", "<">> \o TypeRef_to_string(ty.inner) \o <<">">>
      [] ty.t = "map" -> <<"map", "<">> \o TypeRef_to_string(ty.key) \o <<",", " ">>
                            \o TypeRef_to_string(ty.value) \o <<">">>
      [] OTHER -> <<ty.t>>

\* "required" or "optional", as diff_type words a field's flag.
RequiredWord(required) == IF required THEN "required" ELSE "optional"

\* A variant of diff_type_field that ranks every change of the required flag LOW.
diff_type_field_flag_low(base, current, field) ==
    LET base_field == base.spec.fields[field]
        current_field == current.spec.fields[field] IN
    (IF base_field.field_type # current_field.field_type
     THEN <<with_values(
                with_intent(
                    SemanticChange("Data Schema", "HIGH",
                                   <<"Changed type of field '{}' in '{}' from {} to {}", field,
                                     current.name, TypeRef_to_string(base_field.field_type),
                                     TypeRef_to_string(current_field.field_type)>>),
                    current.name, "Type"),
                TypeRef_to_string(base_field.field_type),
                TypeRef_to_string(current_field.field_type))>>
     ELSE <<>>) \o
    (IF base_field.required # current_field.required
     THEN <<with_intent(
                SemanticChange("Data Schema", "LOW",
                               <<"Changed field '{}' in '{}' from {} to {}", field, current.name,
                                 RequiredWord(base_field.required),
                                 RequiredWord(current_field.required)>>),
                current.name, "Type")>>
     ELSE <<>>)

\* The changes diff_type pushes for one field that both specs have.
diff_type_field(base, current, field) ==
    LET base_field == base.spec.fields[field]
        current_field == current.spec.fields[field] IN
    (IF base_field.field_type # current_field.field_type
     THEN <<with_values(
                with_intent(
                    SemanticChange("Data Schema", "HIGH",
                                   <<"Changed type of field '{}' in '{}' from {} to {}", field,
                                     current.name, TypeRef_to_string(base_field.field_type),
                                     TypeRef_to_string(current_field.field_type)>>),
                    current.name, "Type"),
                TypeRef_to_string(base_field.field_type),
                TypeRef_to_string(current_field.field_type))>>
     ELSE <<>>) \o
    (IF base_field.required # current_field.required
     THEN <<with_intent(
                SemanticChange("Data Schema",
                               IF current_field.required /\ ~base_field.required
                               THEN "HIGH" ELSE "LOW",
                               <<"Changed field '{}' in '{}' from {} to {}", field, current.name,
                                 RequiredWord(base_field.required),
                                 RequiredWord(current_field.required)>>),
                current.name, "Type")>>
     ELSE <<>>)

\* diff_type; o.base_keys and o.current_keys are the orders the HashSets of the
\* keys of the base and of the current document iterate in.
diff_type(base, current, o) ==
    IF ~base.spec.ok \/ "fields" \notin DOMAIN base.spec THEN <<>>
    ELSE IF ~current.spec.ok \/ "fields" \notin DOMAIN current.spec THEN <<>>
    ELSE LET base_fields == DOMAIN base.spec.fields
             current_fields == DOMAIN current.spec.fields
             added == InOrder(o.current_keys, current_fields \ base_fields)
             removed == InOrder(o.base_keys, base_fields \ current_fields)
             common == InOrder(o.base_keys, base_fields \cap current_fields) IN
         [k \in DOMAIN added |->
             LET field_def == current.spec.fields[added[k]] IN
             with_intent(
                 SemanticChange("Data Schema", IF field_def.required THEN "HIGH" ELSE "LOW",
                                <<"Added {} field '{}' to type '{}'",
                                  RequiredWord(field_def.required), added[k], current.name>>),
                 current.name, "Type")] \o
         [k \in DOMAIN removed |->
             with_intent(
                 SemanticChange("Data Schema", "HIGH",
                                <<"Removed field '{}' from type '{}'", removed[k], current.name>>),
                 current.name, "Type")] \o
         Flatten([k \in DOMAIN common |-> diff_type_field(base, current, common[k])])

\* The members of EndpointSpec that only the diff reads.
EndpointApi(spec, method, path, errors) ==
    spec @@ [method |-> method, path |-> path, errors |-> errors]

\* The member of ServiceSpec that only the diff reads.
ServiceApi(spec, base_url) == spec @@ [base_url |-> base_url]

\* as_endpoint_spec(), as_workflow_spec() and as_service_spec() succeed: the
\* spec holds the members these structs require.
ParsesAsEndpoint(doc) == doc.spec.ok /\ {"method", "path", "workflow"} \subseteq DOMAIN doc.spec
ParsesAsWorkflow(doc) == doc.spec.ok /\ "steps" \in DOMAIN doc.spec
ParsesAsService(doc) == doc.spec.ok /\ "base_url" \in DOMAIN doc.spec

\* check_authz_widening as it would be without the arm for a removed authz.
check_authz_widening_without_removal(old_doc, new_doc) ==
    IF ~ParsesAsEndpoint(old_doc) \/ ~ParsesAsEndpoint(new_doc) THEN None
    ELSE LET old_scope == old_doc.spec.authz
             new_scope == new_doc.spec.authz IN
         IF IsSome(old_scope) /\ IsSome(new_scope) /\ Unwrap(old_scope) # Unwrap(new_scope)
         THEN IF \/ Unwrap(new_scope) = Name("*")
                 \/ Unwrap(new_scope) = Name("admin")
                 \/ (Contains(Unwrap(new_scope), "write") /\ ~Contains(Unwrap(old_scope), "write"))
              THEN Some(<<"AuthZ scope widened from '{}' to '{}'", Unwrap(old_scope),
                          Unwrap(new_scope)>>)
              ELSE None
         ELSE None

\* check_authz_widening: the Option of the message.
check_authz_widening(old_doc, new_doc) ==
    IF ~ParsesAsEndpoint(old_doc) \/ ~ParsesAsEndpoint(new_doc) THEN None
    ELSE LET old_scope == old_doc.spec.authz
             new_scope == new_doc.spec.authz IN
         IF IsSome(old_scope) /\ IsSome(new_scope) /\ Unwrap(old_scope) # Unwrap(new_scope)
         THEN IF \/ Unwrap(new_scope) = Name("*")
                 \/ Unwrap(new_scope) = Name("admin")
                 \/ (Contains(Unwrap(new_scope), "write") /\ ~Contains(Unwrap(old_scope), "write"))
              THEN Some(<<"AuthZ scope widened from '{}' to '{}'", Unwrap(old_scope),
                          Unwrap(new_scope)>>)
              ELSE None
         ELSE IF IsSome(old_scope) /\ ~IsSome(new_scope)
         THEN Some(<<"AuthZ removed (was scope '{}')", Unwrap(old_scope)>>)
         ELSE None

\* One change of diff_endpoint, pushed when cond holds.
ChangeIf(cond, change) == IF cond THEN <<change>> ELSE <<>>

\* diff_endpoint
diff_endpoint(base, current, o) ==
    IF ~ParsesAsEndpoint(base) \/ ~ParsesAsEndpoint(current) THEN <<>>
    ELSE LET b == base.spec
             c == current.spec
             E(category, severity, description) ==
                 with_intent(SemanticChange(category, severity, description),
                             current.name, "Endpoint")
             base_errors == Range(b.errors)
             current_errors == Range(c.errors)
             added == InOrder(o.current_keys, current_errors \ base_errors)
             removed == InOrder(o.base_keys, base_errors \ current_errors) IN
         ChangeIf(b.path # c.path,
                  with_values(E("API Surface", "HIGH",
                                <<"Endpoint path changed from '{}' to '{}'", b.path, c.path>>),
                              b.path, c.path)) \o
         ChangeIf(b.method # c.method,
                  E("API Surface", "HIGH",
                    <<"Endpoint method changed from {} to {}", b.method, c.method>>)) \o
         ChangeIf(b.input # c.input,
                  E("API Surface", "HIGH",
                    <<"Endpoint input type changed from '{}' to '{}'", b.input, c.input>>)) \o
         ChangeIf(b.output # c.output,
                  E("API Surface", "HIGH",
                    <<"Endpoint output type changed from '{}' to '{}'", b.output, c.output>>)) \o
         (IF IsSome(check_authz_widening(base, current))
          THEN <<E("AuthZ", "HIGH", Unwrap(check_authz_widening(base, current)))>>
          ELSE <<>>) \o
         ChangeIf(b.timeout_ms # c.timeout_ms,
                  E("Policies", IF ~IsSome(c.timeout_ms) THEN "HIGH" ELSE "MEDIUM",
                    <<"Timeout changed from {:?} to {:?}", b.timeout_ms, c.timeout_ms>>)) \o
         ChangeIf(b.retries_max # c.retries_max,
                  E("Policies", "MEDIUM", <<"Retry policy changed">>)) \o
         ChangeIf(b.idempotency_key # c.idempotency_key,
                  E("Concurrency", "HIGH",
                    <<"Idempotency key changed from {:?} to {:?}", b.idempotency_key,
                      c.idempotency_key>>)) \o
         [k \in DOMAIN added |->
             E("Error Semantics", "MEDIUM", <<"Added error code '{}'", added[k]>>)] \o
         [k \in DOMAIN removed |->
             E("Error Semantics", "MEDIUM", <<"Removed error code '{}'", removed[k]>>)]

\* The tuple diff_workflow keeps of an effect step.
EffectTuple(e) == <<e.effect, e.service, e.operation>>

\* diff_workflow
diff_workflow(base, current) ==
    IF ~ParsesAsWorkflow(base) \/ ~ParsesAsWorkflow(current) THEN <<>>
    ELSE LET bs == EffectsOf(base.spec)
             cs == EffectsOf(current.spec)
             base_effects == [k \in DOMAIN bs |-> EffectTuple(bs[k])]
             current_effects == [k \in DOMAIN cs |-> EffectTuple(cs[k])]
             added == SelectSeq(current_effects, LAMBDA e : e \notin Range(base_effects))
             removed == SelectSeq(base_effects, LAMBDA e : e \notin Range(current_effects)) IN
         [k \in DOMAIN added |->
             with_intent(SemanticChange("Effects", effect_severity(added[k][1]),
                                        <<"Added {} effect", added[k][1]>>),
                         current.name, "Workflow")] \o
         [k \in DOMAIN removed |->
             with_intent(SemanticChange("Effects", "MEDIUM",
                                        <<"Removed {} effect", removed[k][1]>>),
                         current.name, "Workflow")]

\* diff_service
diff_service(base, current, o) ==
    IF ~ParsesAsService(base) \/ ~ParsesAsService(current) THEN <<>>
    ELSE LET base_ops == DOMAIN base.spec.operations
             current_ops == DOMAIN current.spec.operations
             added == InOrder(o.current_keys, current_ops \ base_ops)
             removed == InOrder(o.base_keys, base_ops \ current_ops)
             V(severity, description) ==
                 with_intent(SemanticChange("Effects", severity, description),
                             current.name, "Service") IN
         ChangeIf(base.spec.base_url # current.spec.base_url,
                  V("MEDIUM", <<"Service base URL changed from '{}' to '{}'",
                                base.spec.base_url, current.spec.base_url>>)) \o
         [k \in DOMAIN added |-> V("MEDIUM", <<"Added operation '{}'", added[k]>>)] \o
         [k \in DOMAIN removed |-> V("HIGH", <<"Removed operation '{}'", removed[k]>>)]

\* A variant of diff_intent that ranks a rename HIGH.
diff_intent_rename_high(base, current, o) ==
    ChangeIf(base.name # current.name,
             with_values(
                 with_intent(
                     SemanticChange(category_for_kind(current.kind), "HIGH",
                                    <<"{} renamed from '{}' to '{}'", current.kind, base.name,
                                      current.name>>),
                     current.name, current.kind),
                 base.name, current.name)) \o
    CASE current.kind = "Type" -> diff_type(base, current, o)
      [] current.kind = "Endpoint" -> diff_endpoint(base, current, o)
      [] current.kind = "Workflow" -> diff_workflow(base, current)
      [] current.kind = "Service" -> diff_service(base, current, o)
      [] OTHER -> <<>>

\* diff_intent
diff_intent(base, current, o) ==
    ChangeIf(base.name # current.name,
             with_values(
                 with_intent(
                     SemanticChange(category_for_kind(current.kind), "INFO",
                                    <<"{} renamed from '{}' to '{}'", current.kind, base.name,
                                      current.name>>),
                     current.name, current.kind),
                 base.name, current.name)) \o
    CASE current.kind = "Type" -> diff_type(base, current, o)
      [] current.kind = "Endpoint" -> diff_endpoint(base, current, o)
      [] current.kind = "Workflow" -> diff_workflow(base, current)
      [] current.kind = "Service" -> diff_service(base, current, o)
      [] OTHER -> <<>>

\* The comparator of the sort that ends compute_diff: a goes before b.
SortsBefore(a, b) ==
    \/ DiffSeverity[a.severity] > DiffSeverity[b.severity]
    \/ /\ a.severity = b.severity
       /\ CategoryRank(a.category) < CategoryRank(b.category)

\* Vec::sort_by with that comparator (a stable sort).
RECURSIVE sort_by(_)
sort_by(changes) ==
    IF changes = <<>> THEN <<>>
    ELSE LET n == Len(changes)
             sorted == sort_by(SubSeq(changes, 1, n - 1))
             k == Cardinality({i \in DOMAIN sorted : ~SortsBefore(changes[n], sorted[i])}) IN
         SubSeq(sorted, 1, k) \o <<changes[n]>> \o SubSeq(sorted, k + 1, n - 1)

\* The orders the HashSets of compute_diff and of the per-kind diffs can
\* iterate in: the ids of each store and the keys found in its documents.
DocKeys(doc) ==
    IF ~doc.spec.ok THEN {}
    ELSE (IF "fields" \in DOMAIN doc.spec THEN DOMAIN doc.spec.fields ELSE {})
         \cup (IF "errors" \in DOMAIN doc.spec THEN Range(doc.spec.errors) ELSE {})
         \cup (IF "operations" \in DOMAIN doc.spec THEN DOMAIN doc.spec.operations ELSE {})

DiffOrders(base, current) ==
    {[base_ids |-> bi, current_ids |-> ci, base_keys |-> bk, current_keys |-> ck] :
        bi \in Perms(DOMAIN base.by_id), ci \in Perms(DOMAIN current.by_id),
        bk \in Perms(UNION {DocKeys(d) : d \in StoreDocs(base)}),
        ck \in Perms(UNION {DocKeys(d) : d \in StoreDocs(current)})}

\* A variant of compute_diff that takes an intent as modified only when its
\* spec differs.
compute_diff_on_spec_only(base, current, o) ==
    LET base_ids == DOMAIN base.by_id
        current_ids == DOMAIN current.by_id
        added == InOrder(o.current_ids, current_ids \ base_ids)
        removed == InOrder(o.base_ids, base_ids \ current_ids)
        common == InOrder(o.base_ids, base_ids \cap current_ids) IN
    sort_by(
        Flatten([k \in DOMAIN added |->
                    LET doc == current.by_id[added[k]] IN
                    <<with_intent(SemanticChange(category_for_kind(doc.kind),
                                                 added_intent_severity(doc),
                                                 <<"Added {} '{}'", doc.kind, doc.name>>),
                                  doc.name, doc.kind)>> \o
                    (IF doc.kind = "Workflow" THEN check_new_effects(doc) ELSE <<>>)]) \o
        [k \in DOMAIN removed |->
            LET doc == base.by_id[removed[k]] IN
            with_intent(SemanticChange(category_for_kind(doc.kind), "HIGH",
                                       <<"Removed {} '{}'", doc.kind, doc.name>>),
                        doc.name, doc.kind)] \o
        Flatten([k \in DOMAIN common |->
                    LET base_doc == base.by_id[common[k]]
                        current_doc == current.by_id[common[k]] IN
                    IF base_doc.spec # current_doc.spec
                    THEN diff_intent(base_doc, current_doc, o)
                    ELSE <<>>]))


\* compute_diff
compute_diff(base, current, o) ==
    LET base_ids == DOMAIN base.by_id
        current_ids == DOMAIN current.by_id
        added == InOrder(o.current_ids, current_ids \ base_ids)
        removed == InOrder(o.base_ids, base_ids \ current_ids)
        common == InOrder(o.base_ids, base_ids \cap current_ids) IN
    sort_by(
        Flatten([k \in DOMAIN added |->
                    LET doc == current.by_id[added[k]] IN
                    <<with_intent(SemanticChange(category_for_kind(doc.kind),
                                                 added_intent_severity(doc),
                                                 <<"Added {} '{}'", doc.kind, doc.name>>),
                                  doc.name, doc.kind)>> \o
                    (IF doc.kind = "Workflow" THEN check_new_effects(doc) ELSE <<>>)]) \o
        [k \in DOMAIN removed |->
            LET doc == base.by_id[removed[k]] IN
            with_intent(SemanticChange(category_for_kind(doc.kind), "HIGH",
                                       <<"Removed {} '{}'", doc.kind, doc.name>>),
                        doc.name, doc.kind)] \o
        Flatten([k \in DOMAIN common |->
                    LET base_doc == base.by_id[common[k]]
                        current_doc == current.by_id[common[k]] IN
                    IF base_doc.spec # current_doc.spec \/ base_doc.name # current_doc.name
                    THEN diff_intent(base_doc, current_doc, o)
                    ELSE <<>>]))

\* SemanticDiffResult::new
SemanticDiffResult_new(changes) ==
    LET count(severity) == Cardinality({k \in DOMAIN changes : changes[k].severity = severity}) IN
    [changes |-> changes, high_count |-> count("HIGH"), medium_count |-> count("MEDIUM"),
     low_count |-> count("LOW"), info_count |-> count("INFO")]

\* The loop of load_intents_from_git_ref over the files w[i..] of the ref: a
\* document that add rejects is left out.
RECURSIVE load_git_files(_, _, _, _)
load_git_files(G, w, i, S) ==
    IF i > Len(w) THEN S
    ELSE load_git_files(G, w, i + 1, add(S, from_str(G[w[i]])).store)

\* load_intents_from_git_ref; D.git holds the files of .intent/model at the
\* ref, which git ls-tree lists in path order.
load_intents_from_git_ref(D) == load_git_files(D.git, SortedSeq(DOMAIN D.git), 1, NewStore)

\* cmd_diff with compute_semantic_diff; L is what load_from_default_path returns.
cmd_diff(D, L, o) ==
    IF ~L.ok
    THEN [op |-> "diff", err |-> TRUE, code |-> exit_codes.GENERAL_ERROR,
          result |-> SemanticDiffResult_new(<<>>)]
    ELSE [op |-> "diff", err |-> FALSE, code |-> exit_codes.SUCCESS,
          result |-> SemanticDiffResult_new(
                         compute_diff(load_intents_from_git_ref(D), L.store, o))]

(***************************************************************************)
(* SpecDiff: `intent diff <ref>` on a working tree and a git ref that each  *)
(* hold up to two intent files: revisions of a type in the first file and  *)
(* of a workflow, an endpoint or a service in the second.                  *)
(***************************************************************************)
DiffType(name, fields) == Doc(1, "Type", Name(name), TypeSpec(fields))

DiffWorkflow(name, steps) ==
    Doc(2, "Workflow", Name(name), WorkflowSpec(Name("A"), Name("A"), EmptyFn, steps))

DiffEndpoint(name, path, timeout_ms, authz, errors) ==
    Doc(2, "Endpoint", Name(name),
        EndpointApi(EndpointSpec(Name("A"), Name("A"), Name("W"), None, timeout_ms, None, authz),
                    "POST", path, errors))

DiffService(base_url, operations) ==
    Doc(2, "Service", Name("S"), ServiceApi(ServiceSpec(operations), base_url))

Emit(topic) == EffectStep("EmitEvent", None, None, None, Some(topic), None)

\* The revisions of the intent each file can hold.
DiffRevisions ==
    <<{DiffType("A", [f1 |-> Field(Prim("string"), TRUE)]),
       DiffType("A", [f1 |-> Field(Prim("string"), FALSE)]),
       DiffType("A", [f1 |-> Field(Prim("int"), TRUE)]),
       DiffType("A", [f1 |-> Field(Prim("int"), FALSE)]),
       DiffType("A", [f1 |-> Field(Prim("string"), TRUE), f2 |-> Field(Prim("string"), TRUE)]),
       DiffType("A", [f1 |-> Field(Prim("string"), TRUE), f2 |-> Field(Prim("string"), FALSE)]),
       DiffType("B", [f1 |-> Field(Prim("string"), TRUE)]),
       Doc(1, "Type", Name("A"), EmptySpec)},
      {DiffWorkflow("W", <<Http(Some(Name("S")), Some("charge"))>>),
       DiffWorkflow("W", <<Http(Some(Name("S")), Some("charge")), Db("DbWrite", "t1")>>),
       DiffWorkflow("W", <<Db("DbWrite", "t2")>>),
       DiffWorkflow("W", <<Db("DbWrite", "t1"), Db("DbRead", "t1"), Emit("refunded")>>),
       DiffWorkflow("W", <<Db("DbDelete", "t1"), TransformStep([c1 |-> "input.f1"]),
                           Emit("refunded")>>),
       DiffWorkflow("X", <<Http(Some(Name("S")), Some("charge"))>>),
       DiffEndpoint("E", "/e", Some(1000), None, <<>>),
       DiffEndpoint("E", "/e", Some(1000), Some(Name("*")), <<>>),
       DiffEndpoint("E", "/e", Some(1000), Some(Name("admin")), <<>>),
       DiffEndpoint("E", "/e", Some(1000), Some(<<"orders", ":", "read">>), <<>>),
       DiffEndpoint("E", "/e", Some(1000), Some(<<"orders", ":", "write">>), <<>>),
       DiffEndpoint("E", "/e", Some(1000), Some(<<"users", ":", "write">>), <<>>),
       DiffEndpoint("E", "/f", None, Some(<<"orders", ":", "read">>), <<"NOT_FOUND">>),
       DiffEndpoint("F", "/e", Some(1000), Some(<<"orders", ":", "read">>), <<>>),
       DiffService("u1", [charge |-> ServiceOperation(Name("A"), Name("A"))]),
       DiffService("u2", EmptyFn)}>>

\* The sets of intent files a tree can hold, every file in canonical form.
DiffTrees ==
    {t \in UNION {[F -> UNION Range(DiffRevisions)] : F \in SUBSET DOMAIN DiffRevisions} :
        \A f \in DOMAIN t : t[f] \in DiffRevisions[f]}

FilesOf(t) == [f \in DOMAIN t |-> pretty_canonical(t[f])]

InitDiff ==
    /\ by_id = NewStore.by_id
    /\ by_kind_name = NewStore.by_kind_name
    /\ by_name = NewStore.by_name
    /\ ret = [op |-> "new"]
    /\ \E base \in DiffTrees, current \in DiffTrees :
          disk = [model |-> FilesOf(current), gen |-> EmptyFn, locks |-> EmptyFn,
                  git |-> FilesOf(base)]

\* One run of `intent diff <ref>`.
Diff ==
    \E L \in Loads(disk) :
        \E o \in DiffOrders(load_intents_from_git_ref(disk), L.store) :
            /\ ret' = cmd_diff(disk, L, o)
            /\ UNCHANGED <<storeVars, disk>>

NextDiff == Diff

SpecDiff == InitDiff /\ [][NextDiff]_vars

\* The two stores the last run compared.
DiffBase == load_intents_from_git_ref(disk)
DiffCurrent == AnyLoad(disk).store

\* The format string of a change's description.
Format(change) == change.description[1]

\* The positions of the changes made with one of the formats F for the intent
\* of the given name and kind.
ChangesFor(changes, F, name, kind) ==
    {k \in DOMAIN changes :
        /\ Format(changes[k]) \in F
        /\ changes[k].intent_name = Some(name)
        /\ changes[k].intent_kind = Some(kind)}

\* The formats of the descriptions that compute_diff and the per-kind diffs make.
AddedFormat == "Added {} '{}'"
RemovedFormat == "Removed {} '{}'"
NewEffectFormat == "New {} effect in workflow '{}'"
RenamedFormat == "{} renamed from '{}' to '{}'"
AllFormats ==
    {AddedFormat, RemovedFormat, NewEffectFormat, RenamedFormat,
     "Changed type of field '{}' in '{}' from {} to {}", "Changed field '{}' in '{}' from {} to {}",
     "Added {} field '{}' to type '{}'", "Removed field '{}' from type '{}'",
     "Endpoint path changed from '{}' to '{}'", "Endpoint method changed from {} to {}",
     "Endpoint input type changed from '{}' to '{}'",
     "Endpoint output type changed from '{}' to '{}'",
     "AuthZ scope widened from '{}' to '{}'", "AuthZ removed (was scope '{}')",
     "Timeout changed from {:?} to {:?}", "Retry policy changed",
     "Idempotency key changed from {:?} to {:?}", "Added error code '{}'",
     "Removed error code '{}'", "Added {} effect", "Removed {} effect",
     "Service base URL changed from '{}' to '{}'", "Added operation '{}'",
     "Removed operation '{}'"}

\* C11: compute_diff pairs intents by id: one 'Added' change for each id that
\* only current holds and no other 'Added' change; one HIGH 'Removed' change
\* for each id that only base holds and no other; an id held by both with
\* equal spec and equal name gets no change; an id held by both whose name
\* differs gets its rename change; and every other change is about an id held
\* by both whose spec or name differ.
C11_PairingById ==
    ret.op = "diff" =>
        LET B == DiffBase.by_id
            C == DiffCurrent.by_id
            cs == ret.result.changes
            onlyC == DOMAIN C \ DOMAIN B
            onlyB == DOMAIN B \ DOMAIN C
            both == DOMAIN B \cap DOMAIN C
            modified == {i \in both : B[i].spec # C[i].spec \/ B[i].name # C[i].name} IN
        /\ \A i \in onlyC :
              Cardinality(ChangesFor(cs, {AddedFormat}, C[i].name, C[i].kind)) = 1
        /\ Cardinality({k \in DOMAIN cs : Format(cs[k]) = AddedFormat}) = Cardinality(onlyC)
        /\ \A i \in onlyB :
              /\ Cardinality(ChangesFor(cs, {RemovedFormat}, B[i].name, B[i].kind)) = 1
              /\ \A k \in ChangesFor(cs, {RemovedFormat}, B[i].name, B[i].kind) :
                    cs[k].severity = "HIGH"
        /\ Cardinality({k \in DOMAIN cs : Format(cs[k]) = RemovedFormat}) = Cardinality(onlyB)
        /\ \A i \in both \ modified :
              ChangesFor(cs, AllFormats \ {RemovedFormat}, C[i].name, C[i].kind) = {}
        /\ \A i \in modified :
              (B[i].name # C[i].name) <=>
                  (ChangesFor(cs, {RenamedFormat}, C[i].name, C[i].kind) # {})
        /\ \A k \in DOMAIN cs :
              \/ Format(cs[k]) \in {AddedFormat, RemovedFormat}
              \/ /\ Format(cs[k]) = NewEffectFormat
                 /\ \E i \in onlyC : C[i].kind = "Workflow" /\ cs[k].intent_name = Some(C[i].name)
              \/ \E i \in modified :
                    /\ cs[k].intent_name = Some(C[i].name)
                    /\ cs[k].intent_kind = Some(C[i].kind)

\* A diff of a ref that holds a type and a tree that holds a workflow instead:
\* one id was removed and another added.
C11_Witness ==
    /\ ret.op = "diff"
    /\ DOMAIN DiffBase.by_id = {1} /\ DOMAIN DiffCurrent.by_id = {2}
    /\ \E k \in DOMAIN ret.result.changes : Format(ret.result.changes[k]) = RemovedFormat
    /\ \E k \in DOMAIN ret.result.changes : Format(ret.result.changes[k]) = AddedFormat

\* The stores B and C hold the same ids and differ only in the name of the
\* intent with id i.
RenamedOnly(B, C, i) ==
    /\ DOMAIN B = DOMAIN C
    /\ i \in DOMAIN B
    /\ B[i].name # C[i].name /\ B[i].kind = C[i].kind /\ B[i].spec = C[i].spec
    /\ \A j \in DOMAIN B \ {i} : B[j] = C[j]

\* C12: when the two stores differ only in the name of one intent (same id,
\* kind and spec), the diff has exactly one change, it is about that intent,
\* has severity INFO and carries the old and the new name, and no change is HIGH.
C12_RenameIsOneInfoChange ==
    ret.op = "diff" =>
        \A i \in DOMAIN DiffBase.by_id :
            RenamedOnly(DiffBase.by_id, DiffCurrent.by_id, i) =>
                LET cs == ret.result.changes
                    b == DiffBase.by_id[i]
                    c == DiffCurrent.by_id[i] IN
                /\ Len(cs) = 1
                /\ cs[1].severity = "INFO"
                /\ Format(cs[1]) = RenamedFormat
                /\ cs[1].intent_name = Some(c.name) /\ cs[1].intent_kind = Some(c.kind)
                /\ cs[1].old_value = Some(b.name) /\ cs[1].new_value = Some(c.name)
                /\ ret.result.high_count = 0 /\ ret.result.info_count = 1

\* A diff of two corpora of two intents each where only the endpoint was renamed.
C12_Witness ==
    /\ ret.op = "diff"
    /\ RenamedOnly(DiffBase.by_id, DiffCurrent.by_id, 2)
    /\ DiffCurrent.by_id[2].kind = "Endpoint"
    /\ 1 \in DOMAIN DiffCurrent.by_id
    /\ Len(ret.result.changes) = 1

\* The place of the field name in a description made by diff_type.
FieldPlace(format) == IF format = "Added {} field '{}' to type '{}'" THEN 3 ELSE 2

\* The positions of the DataSchema changes of the given format and severity
\* that name the field of the type.
FieldChanges(changes, format, severity, field, type_name) ==
    {k \in DOMAIN changes :
        /\ Format(changes[k]) = format
        /\ changes[k].category = "Data Schema"
        /\ changes[k].severity = severity
        /\ changes[k].intent_name = Some(type_name)
        /\ changes[k].description[FieldPlace(format)] = field}

\* The formats of the changes diff_type makes.
FieldFormats ==
    {"Added {} field '{}' to type '{}'", "Removed field '{}' from type '{}'",
     "Changed type of field '{}' in '{}' from {} to {}",
     "Changed field '{}' in '{}' from {} to {}"}

\* C13: for a Type intent that both stores hold with a spec that parses, the
\* diff has one DataSchema change per field difference and no other change for
\* a field: added required field HIGH, added optional field LOW, removed field
\* HIGH, changed type HIGH, required to optional LOW, optional to required
\* HIGH; a field of unchanged type and flag has none.
C13_TypeFieldChanges ==
    ret.op = "diff" =>
        \A i \in DOMAIN DiffBase.by_id \cap DOMAIN DiffCurrent.by_id :
            LET b == DiffBase.by_id[i]
                c == DiffCurrent.by_id[i]
                cs == ret.result.changes
                N(format, severity, field) ==
                    Cardinality(FieldChanges(cs, format, severity, field, c.name))
                All(field) ==
                    Cardinality({k \in DOMAIN cs :
                                    /\ Format(cs[k]) \in FieldFormats
                                    /\ cs[k].intent_name = Some(c.name)
                                    /\ cs[k].description[FieldPlace(Format(cs[k]))] = field}) IN
            (b.kind = "Type" /\ c.kind = "Type" /\ b.spec.ok /\ c.spec.ok) =>
                \A f \in DOMAIN b.spec.fields \cup DOMAIN c.spec.fields :
                    IF f \notin DOMAIN b.spec.fields
                    THEN /\ All(f) = 1
                         /\ N("Added {} field '{}' to type '{}'",
                              IF c.spec.fields[f].required THEN "HIGH" ELSE "LOW", f) = 1
                    ELSE IF f \notin DOMAIN c.spec.fields
                    THEN All(f) = 1 /\ N("Removed field '{}' from type '{}'", "HIGH", f) = 1
                    ELSE LET typed == b.spec.fields[f].field_type # c.spec.fields[f].field_type
                             flagged == b.spec.fields[f].required # c.spec.fields[f].required IN
                         /\ All(f) = (IF typed THEN 1 ELSE 0) + (IF flagged THEN 1 ELSE 0)
                         /\ typed =>
                               N("Changed type of field '{}' in '{}' from {} to {}", "HIGH", f) = 1
                         /\ flagged =>
                               N("Changed field '{}' in '{}' from {} to {}",
                                 IF c.spec.fields[f].required THEN "HIGH" ELSE "LOW", f) = 1

\* A diff where the type gained the required field f2 while f1 stayed as it was:
\* one HIGH change for f2 and none for f1.
C13_Witness ==
    /\ ret.op = "diff"
    /\ 1 \in DOMAIN DiffBase.by_id \cap DOMAIN DiffCurrent.by_id
    /\ DiffBase.by_id[1].spec.ok /\ DiffCurrent.by_id[1].spec.ok
    /\ DOMAIN DiffBase.by_id[1].spec.fields = {"f1"}
    /\ DOMAIN DiffCurrent.by_id[1].spec.fields = {"f1", "f2"}
    /\ DiffCurrent.by_id[1].spec.fields["f2"].required
    /\ FieldChanges(ret.result.changes, "Added {} field '{}' to type '{}'", "HIGH", "f2",
                    DiffCurrent.by_id[1].name) # {}


\* The identity of an effect step: its kind, service, operation, table and topic.
EffectIdentity(e) == <<e.effect, e.service, e.operation, e.table, e.topic>>

\* The identities of the effect steps of a workflow document.
EffectIdentities(doc) ==
    {EffectIdentity(EffectsOf(doc.spec)[k]) : k \in DOMAIN EffectsOf(doc.spec)}

\* C14: for a Workflow held by both stores, every effect (identified by kind,
\* service, operation, table and topic) that current has and base has not
\* yields an 'Added effect' change of that kind with severity HIGH for
\* HttpCall, DbWrite and DbDelete, MEDIUM for EmitEvent and LOW for DbRead, and
\* every effect that base has and current has not yields a MEDIUM 'Removed
\* effect' change of that kind.
C14_EffectChangesByIdentity ==
    ret.op = "diff" =>
        \A i \in DOMAIN DiffBase.by_id \cap DOMAIN DiffCurrent.by_id :
            LET b == DiffBase.by_id[i]
                c == DiffCurrent.by_id[i]
                cs == ret.result.changes IN
            (ParsesAsWorkflow(b) /\ ParsesAsWorkflow(c)) =>
                /\ \A e \in EffectIdentities(c) \ EffectIdentities(b) :
                      \E k \in ChangesFor(cs, {"Added {} effect"}, c.name, "Workflow") :
                          /\ cs[k].description[2] = e[1]
                          /\ cs[k].severity = effect_severity(e[1])
                /\ \A e \in EffectIdentities(b) \ EffectIdentities(c) :
                      \E k \in ChangesFor(cs, {"Removed {} effect"}, c.name, "Workflow") :
                          /\ cs[k].description[2] = e[1]
                          /\ cs[k].severity = "MEDIUM"

\* The positions of the changes of category AuthZ about the endpoint of the
\* given name.
AuthzChanges(changes, name) ==
    {k \in DOMAIN changes :
        /\ changes[k].category = "AuthZ"
        /\ changes[k].intent_name = Some(name)
        /\ changes[k].intent_kind = Some("Endpoint")}

\* An endpoint's authz went from old to new in a way that widens it: it was
\* removed, or the scope was switched from a different scope to "*" or to
\* "admin", or the new scope contains "write" and the old one did not.
Widened(old, new) ==
    \/ IsSome(old) /\ ~IsSome(new)
    \/ /\ IsSome(old) /\ IsSome(new) /\ Unwrap(old) # Unwrap(new)
       /\ \/ Unwrap(new) \in {Name("*"), Name("admin")}
          \/ Contains(Unwrap(new), "write") /\ ~Contains(Unwrap(old), "write")

\* C15: for an Endpoint held by both stores the diff has a HIGH change of
\* category AuthZ (exactly one) when the authz was removed, when the scope was
\* switched from a different scope to "*" or "admin", or when the new scope
\* contains "write" and the old one did not; it has no AuthZ change when the
\* scope is unchanged or changes in any other way.
C15_AuthzWidening ==
    ret.op = "diff" =>
        \A i \in DOMAIN DiffBase.by_id \cap DOMAIN DiffCurrent.by_id :
            LET b == DiffBase.by_id[i]
                c == DiffCurrent.by_id[i]
                cs == ret.result.changes IN
            (ParsesAsEndpoint(b) /\ ParsesAsEndpoint(c)) =>
                IF Widened(b.spec.authz, c.spec.authz)
                THEN /\ Cardinality(AuthzChanges(cs, c.name)) = 1
                     /\ \A k \in AuthzChanges(cs, c.name) : cs[k].severity = "HIGH"
                ELSE AuthzChanges(cs, c.name) = {}

\* A diff where the endpoint's authz was removed, reported as an AuthZ change.
C15_Witness ==
    /\ ret.op = "diff"
    /\ 2 \in DOMAIN DiffBase.by_id \cap DOMAIN DiffCurrent.by_id
    /\ ParsesAsEndpoint(DiffBase.by_id[2]) /\ ParsesAsEndpoint(DiffCurrent.by_id[2])
    /\ IsSome(DiffBase.by_id[2].spec.authz) /\ ~IsSome(DiffCurrent.by_id[2].spec.authz)
    /\ AuthzChanges(ret.result.changes, DiffCurrent.by_id[2].name) # {}

(***************************************************************************)
(* SpecResolveOrder: resolve_references over stores of Type intents whose  *)
(* single field may refer to a type that no document defines               *)
(***************************************************************************)
\* Bound: the number of documents of the corpus.
MaxRefDocs == 3

RefDocNames == <<Name("A"), Name("B"), Name("C"), Name("F"), Name("G")>>

\* The names a field refers to: the first three are names of documents of the
\* corpus, the last two are names of no document.
RefTargets == <<Name("A"), Name("B"), Name("C"), Name("D"), Name("E")>>

RefUniverse ==
    {Doc(i, "Type", RefDocNames[i], TypeSpec([k \in {"f1"} |-> Field(Named(RefTargets[t]), TRUE)])) :
        i \in 1..MaxRefDocs, t \in DOMAIN RefTargets}

RefAdd == \E d \in RefUniverse : d.id \notin DOMAIN by_id /\ AddDoc(d)

NextResolveOrder == RefAdd \/ Resolve

SpecResolveOrder == InitStore /\ [][NextResolveOrder]_vars

\* The edges of a ResolvedGraph: the keys of both maps and the ids listed
\* under each key, the order of the lists left aside.
GraphEdges(g) ==
    [dependencies |-> [i \in DOMAIN g.dependencies |-> Range(g.dependencies[i])],
     dependents |-> [i \in DOMAIN g.dependents |-> Range(g.dependents[i])]]

\* C16: resolve_references yields the same diagnostics (the same E005 and E006
\* entries, in number and in order) and the same dependency graph whatever
\* the order in which the store iterates its documents.
C16_ResolveOrderIndependent ==
    ret.op = "resolve" =>
        \A o \in Orders(Store) : \A d \in Perms(DOMAIN by_id) :
            LET a == resolve_references(Store, o)
                b == resolve_references(Store, [o EXCEPT !.docs = d]) IN
            /\ a.result = b.result
            /\ GraphEdges(a.graph) = GraphEdges(b.graph)

(***************************************************************************)
(* Queries of the store (parser/loader.rs) and their independence of the   *)
(* order of the adds, checked under SpecStore                              *)
(***************************************************************************)
\* find_by_name
find_by_name(S, name) ==
    IF name \in DOMAIN S.by_name /\ S.by_name[name] # <<>>
    THEN get(S, S.by_name[name][1])
    ELSE None

\* The kinds by their display strings and the names of the store universe, in
\* the order String::cmp gives them.
KindStrings == <<"ContractTest", "Endpoint", "Migration", "Service", "Type", "Workflow">>
NameStrings == <<Name("Extra"), Name("Other"), Name("Test"), Name("TestType")>>

StringRank(strings, x) == CHOOSE k \in DOMAIN strings : strings[k] = x

\* IntentSummary::from for a document that was not read from a file.
IntentSummary(doc) == [id |-> doc.id, kind |-> doc.kind, name |-> doc.name, file |-> ""]

\* The comparator of list: by kind, then by name.
SummaryBefore(a, b) ==
    \/ StringRank(KindStrings, a.kind) < StringRank(KindStrings, b.kind)
    \/ /\ a.kind = b.kind
       /\ StringRank(NameStrings, a.name) < StringRank(NameStrings, b.name)

\* summaries.sort_by with that comparator (a stable sort).
RECURSIVE sort_summaries(_)
sort_summaries(summaries) ==
    IF summaries = <<>> THEN <<>>
    ELSE LET n == Len(summaries)
             sorted == sort_summaries(SubSeq(summaries, 1, n - 1))
             k == Cardinality({i \in DOMAIN sorted : ~SummaryBefore(summaries[n], sorted[i])}) IN
         SubSeq(sorted, 1, k) \o <<summaries[n]>> \o SubSeq(sorted, k + 1, n - 1)

\* list; values is the order by_id.values() yields and kind_filter the Option
\* of the kind that IntentKind::from_str parsed.
list(S, values, kind_filter) ==
    LET kept == SelectSeq(values, LAMBDA i : IsSome(kind_filter) => S.by_id[i].kind = Unwrap(kind_filter)) IN
    sort_summaries([k \in DOMAIN kept |-> IntentSummary(S.by_id[kept[k]])])

\* The loop of load_from_path over the documents docs[i..] that
\* load_intent_file returned, in the order the directory walk gave them.
RECURSIVE load_docs(_, _, _)
load_docs(docs, i, S) ==
    IF i > Len(docs) THEN [ok |-> TRUE, store |-> S]
    ELSE LET r == add(S, docs[i]) IN
         IF r.ok THEN load_docs(docs, i + 1, r.store) ELSE [ok |-> FALSE, store |-> S]

\* The kind filters of list that name a kind of the store universe, and none.
KindFilters == {None, Some("Type"), Some("Service")}

\* C17: for a fixed set of documents, whether loading succeeds and the results
\* of get, get_by_kind_name, find_by_name and list do not depend on the order
\* in which the documents were added: every order of adding the documents the
\* store holds succeeds and answers every query as the store does, and every
\* order of adding them together with a document the store just rejected fails.
C17_AddOrderIndependent ==
    /\ \A w \in Perms(DOMAIN by_id) :
          LET L == load_docs([k \in DOMAIN w |-> by_id[w[k]]], 1, NewStore) IN
          /\ L.ok
          /\ \A i \in StoreIds : get(L.store, i) = get(Store, i)
          /\ \A k \in {"Type", "Service"} : \A n \in Range(NamePool) :
                get_by_kind_name(L.store, k, n) = get_by_kind_name(Store, k, n)
          /\ \A n \in Range(NamePool) : find_by_name(L.store, n) = find_by_name(Store, n)
          /\ \A f \in KindFilters : \A v \in Perms(DOMAIN by_id) :
                list(L.store, v, f) = list(Store, w, f)
    /\ (ret.op = "add" /\ ~ret.ok) =>
          \A w \in Perms(DOMAIN by_id \cup {0}) :
              ~load_docs([k \in DOMAIN w |-> IF w[k] = 0 THEN ret.doc ELSE by_id[w[k]]],
                         1, NewStore).ok

\* C18: in every reachable state of the store, every id held by by_kind_name
\* and by by_name is a key of by_id, and every document of by_id has its
\* (kind, name) mapped to its own id in by_kind_name and its id listed exactly
\* once under its name in by_name.
C18_IndexesConsistent ==
    /\ \A key \in DOMAIN by_kind_name : by_kind_name[key] \in DOMAIN by_id
    /\ \A n \in DOMAIN by_name : \A k \in DOMAIN by_name[n] : by_name[n][k] \in DOMAIN by_id
    /\ \A i \in DOMAIN by_id :
          /\ by_id[i].id = i
          /\ <<by_id[i].kind, by_id[i].name>> \in DOMAIN by_kind_name
          /\ by_kind_name[<<by_id[i].kind, by_id[i].name>>] = i
          /\ by_id[i].name \in DOMAIN by_name
          /\ Cardinality({k \in DOMAIN by_name[by_id[i].name] :
                             by_name[by_id[i].name][k] = i}) = 1

\* A store of three documents, two of which share a name, after a rejected add.
C18_Witness ==
    /\ len(Store) = 3
    /\ \E n \in DOMAIN by_name : Len(by_name[n]) = 2
    /\ ret.op = "add" /\ ~ret.ok

(***************************************************************************)
(* SpecLocks: a project whose workflows write two tables, and the lock     *)
(* files `intent gen` writes for it                                        *)
(***************************************************************************)
\* The files of the project: the type, the workflow writing t1, the migration
\* of t1 and the workflow writing t2 and t1.
LocksFiles == {1, 3, 4, 6}

WriteLocksFile == WriteFile(LocksFiles)

NextLocks == WriteLocksFile \/ Gen

SpecLocks == InitStore /\ [][NextLocks]_vars

\* The obligation types by their names, the tables and the service operations
\* of the model, in ascending order.
ObligationTypeStrings == <<"ContractTest", "Migration">>
TableStrings == <<"t1", "t2">>
ServiceOperationStrings == <<<<Name("S"), "charge">>, <<Name("S"), "refund">>>>

\* The place of an obligation in the order by (kind, target): the target is
\* the table of a Migration and the service operation of a ContractTest.
ObligationKey(ob) ==
    <<StringRank(ObligationTypeStrings, ob.obligation_type),
      IF IsSome(ob.table) THEN StringRank(TableStrings, Unwrap(ob.table))
      ELSE StringRank(ServiceOperationStrings, Unwrap(ob.service_operation))>>

\* The obligations held by .intent/locks/obligations.json in the directory D.
LockedObligations(D) == D.locks["obligations.json"].json

\* C19: the obligations that a write-mode run of generate writes to
\* .intent/locks/obligations.json are in ascending order of (kind, target).
C19_LockedObligationsSorted ==
    "obligations.json" \in DOMAIN disk.locks =>
        \A i, j \in DOMAIN LockedObligations(disk) :
            i < j =>
                LET a == ObligationKey(LockedObligations(disk)[i])
                    b == ObligationKey(LockedObligations(disk)[j]) IN
                a[1] < b[1] \/ (a[1] = b[1] /\ a[2] <= b[2])

\* The manifest held by .intent/locks/gen-manifest.json in the directory D.
LockedManifest(D) == D.locks["gen-manifest.json"].json

\* The ids of the intents a generated content was rendered from, for the
\* contents rendered from a set of intents: types.rs, errors.rs, the mod.rs of
\* the endpoints and of the workflows and the file of one endpoint or workflow.
ContributingIntents(content) ==
    IF content.template \in {"types.rs", "errors.rs", "mod.rs", "module.rs"}
    THEN {d.id : d \in content.inputs}
    ELSE {}

\* C20: after a write-mode generate the manifest has exactly one entry per
\* generated file path, the entry holds the SHA-256 hash of the rendered
\* content, and the source_intents of every file rendered from one or more
\* intents contain the ids of those intents.
C20_ManifestRecordsSources ==
    (ret.op = "gen" /\ ~ret.check /\ ~ret.err /\ ret.code = exit_codes.SUCCESS) =>
        LET paths == {ret.files[k].path : k \in DOMAIN ret.files} IN
        /\ DOMAIN LockedManifest(disk).files = paths
        /\ \A p \in paths :
              /\ p \in DOMAIN disk.gen
              /\ LockedManifest(disk).files[p].hash = compute_hash(disk.gen[p])
              /\ ContributingIntents(disk.gen[p]) \subseteq
                    Range(LockedManifest(disk).files[p].source_intents)

(***************************************************************************)
(* TypeRef::parse (model/types.rs).  A type string is the sequence of its  *)
(* lexical pieces: words, "<", ">", "," and " ".                           *)
(***************************************************************************)
\* str::trim
RECURSIVE trim(_)
trim(s) ==
    IF s = <<>> THEN s
    ELSE IF Head(s) = " " THEN trim(Tail(s))
    ELSE IF s[Len(s)] = " " THEN trim(SubSeq(s, 1, Len(s) - 1))
    ELSE s

\* str::to_lowercase of a word of the model.
to_lowercase(word) ==
    CASE word = "String" -> "string"
      [] word = "Order" -> "order"
      [] word = "A" -> "a"
      [] OTHER -> word

\* The primitives that the match of parse names.
Primitives == {"string", "int", "float", "bool", "money", "datetime", "uuid", "bytes"}

\* Result of parse
TypeOk(ty) == [ok |-> TRUE, value |-> ty]
TypeErr(err) == [ok |-> FALSE, err |-> err]

\* The depth of angle brackets after each piece of s (the counter of
\* split_map_types).
RECURSIVE DepthAfter(_, _)
DepthAfter(s, i) ==
    IF i = 0 THEN 0
    ELSE DepthAfter(s, i - 1) + (IF s[i] = "<" THEN 1 ELSE IF s[i] = ">" THEN -1 ELSE 0)

\* split_map_types
split_map_types(s) ==
    LET commas == {i \in DOMAIN s : s[i] = "," /\ DepthAfter(s, i) = 0} IN
    IF commas = {} THEN TypeErr("MissingMapValue")
    ELSE LET i == CHOOSE c \in commas : \A d \in commas : c <= d IN
         IF trim(SubSeq(s, i + 1, Len(s))) = <<>> THEN TypeErr("MissingMapValue")
         ELSE [ok |-> TRUE, key |-> trim(SubSeq(s, 1, i - 1)),
               value |-> trim(SubSeq(s, i + 1, Len(s)))]

\* s.strip_prefix(word + "<").and_then(|s| s.strip_suffix('>'))
Strips(s, word) == Len(s) >= 3 /\ s[1] = word /\ s[2] = "<" /\ s[Len(s)] = ">"
Stripped(s) == SubSeq(s, 3, Len(s) - 1)

\* is_valid_map_key
is_valid_map_key(ty) == ty.t \in {"string", "int", "uuid"}

\* The first character of a nonempty string is alphabetic.
StartsAlphabetic(s) == s[1] \notin {"<", ">", ",", " "}

\* TypeRef::parse
RECURSIVE TypeRef_parse(_)
TypeRef_parse(text) ==
    LET s == trim(text) IN
    IF Strips(s, "array")
    THEN LET inner == TypeRef_parse(Stripped(s)) IN
         IF inner.ok THEN TypeOk(Array(inner.value)) ELSE inner
    ELSE IF Strips(s, "optional")
    THEN LET inner == TypeRef_parse(Stripped(s)) IN
         IF inner.ok THEN TypeOk(Optional(inner.value)) ELSE inner
    ELSE IF Strips(s, "map")
    THEN LET kv == split_map_types(Stripped(s)) IN
         IF ~kv.ok THEN kv
         ELSE LET key_type == TypeRef_parse(kv.key) IN
              IF ~key_type.ok THEN key_type
              ELSE LET value_type == TypeRef_parse(kv.value) IN
                   IF ~value_type.ok THEN value_type
                   ELSE IF ~is_valid_map_key(key_type.value)
                   THEN TypeErr("InvalidMapKey")
                   ELSE TypeOk(Map(key_type.value, value_type.value))
    ELSE IF Len(s) = 1 /\ to_lowercase(s[1]) \in Primitives
    THEN TypeOk(Prim(to_lowercase(s[1])))
    ELSE IF s = <<>> THEN TypeErr("Empty")
    ELSE IF ~StartsAlphabetic(s) THEN TypeErr("InvalidName")
    ELSE TypeOk(Named(s))

(***************************************************************************)
(* SpecTypeRef: type references are printed and parsed back, and map types *)
(* with a float key are parsed                                             *)
(***************************************************************************)
\* Bound: the nesting depth of the type references.
MaxTypeDepth == 2

\* Identifiers that start with an ASCII letter.
Identifiers == {Name("A"), Name("Order"), Name("String"), Name("uuid")}

\* The type references of nesting depth at most n, map keys being string,
\* int or uuid.
RECURSIVE TypeRefs(_)
TypeRefs(n) ==
    IF n = 0 THEN {Prim(p) : p \in Primitives} \cup {Named(s) : s \in Identifiers}
    ELSE LET T == TypeRefs(n - 1) IN
         T \cup {Array(t) : t \in T} \cup {Optional(t) : t \in T}
           \cup {Map(Prim(k), v) : k \in {"string", "int", "uuid"}, v \in T}

\* TypeRef::parse(&t.to_string())
ParsePrinted ==
    \E t \in TypeRefs(MaxTypeDepth) :
        /\ ret' = [op |-> "parse_printed", ty |-> t, text |-> TypeRef_to_string(t),
                   out |-> TypeRef_parse(TypeRef_to_string(t))]
        /\ UNCHANGED <<storeVars, disk>>

\* TypeRef::parse("map<float, V>") for a value type V.
ParseFloatMap ==
    \E v \in TypeRefs(MaxTypeDepth - 1) :
        /\ ret' = [op |-> "parse_float_map", ty |-> v,
                   text |-> <<"map", "<", "float", ",", " ">> \o TypeRef_to_string(v) \o <<">">>,
                   out |-> TypeRef_parse(<<"map", "<", "float", ",", " ">>
                                            \o TypeRef_to_string(v) \o <<">">>)]
        /\ UNCHANGED <<storeVars, disk>>

NextTypeRef == ParsePrinted \/ ParseFloatMap

SpecTypeRef == InitStore /\ [][NextTypeRef]_vars

\* C21: for every TypeRef value t (each primitive, array, optional and map
\* over such values with a string, int or uuid key, and Named(s) for every
\* identifier s starting with an ASCII letter), TypeRef::parse(t.to_string())
\* equals t; and parsing map<float, V> fails for every value type V.
C21_ParsePrintRoundTrip ==
    /\ ret.op = "parse_printed" => ret.out = TypeOk(ret.ty)
    /\ ret.op = "parse_float_map" => ~ret.out.ok

(***************************************************************************)
(* SpecFmt: intent files are written into the project and `intent fmt`     *)
(* runs on it, in write mode and in check mode, on all files or on one     *)
(***************************************************************************)
\* format_intent_files(Some(file), check_only): ok is FALSE when the file
\* cannot be read.
format_specific_file(D, file, check_only) ==
    IF file \notin DOMAIN D.model THEN [ok |-> FALSE, results |-> <<>>, disk |-> D]
    ELSE LET canonical == pretty_canonical(from_str(D.model[file]))
             changed == D.model[file] # canonical IN
         [ok |-> TRUE, results |-> <<[path |-> file, changed |-> changed]>>,
          disk |-> IF changed /\ ~check_only
                   THEN [D EXCEPT !.model = [D.model EXCEPT ![file] = canonical]]
                   ELSE D]

\* cmd_fmt on the directory D: what it returns and the directory after it.
cmd_fmt(D, check, file) ==
    LET r == IF IsSome(file) THEN format_specific_file(D, Unwrap(file), check)
             ELSE [ok |-> TRUE, results |-> format_intent_files(D, check).results,
                   disk |-> format_intent_files(D, check).disk] IN
    IF ~r.ok
    THEN [ret |-> [op |-> "fmt", check |-> check, file |-> file, err |-> TRUE,
                   code |-> exit_codes.GENERAL_ERROR, results |-> <<>>],
          disk |-> D]
    ELSE [ret |-> [op |-> "fmt", check |-> check, file |-> file, err |-> FALSE,
                   code |-> IF check /\ \E k \in DOMAIN r.results : r.results[k].changed
                            THEN exit_codes.GENERAL_ERROR ELSE exit_codes.SUCCESS,
                   results |-> r.results],
          disk |-> r.disk]

\* The --file arguments of the runs: none, or one of the first two files.
FmtFiles == {None, Some(1), Some(2)}

\* One run of `intent fmt` (check = FALSE) or `intent fmt --check`.
Fmt ==
    \E check \in BOOLEAN, file \in FmtFiles :
        /\ ret' = cmd_fmt(disk, check, file).ret
        /\ disk' = cmd_fmt(disk, check, file).disk
        /\ UNCHANGED storeVars

NextFmt == WriteModelFile \/ Fmt

SpecFmt == InitStore /\ [][NextFmt]_vars

\* The files a run of fmt with the given --file argument examines in D.
Examined(D, file) == IF IsSome(file) THEN {Unwrap(file)} ELSE DOMAIN D.model

cmd_validate_code(result) ==
    IF result.errors = <<>> THEN exit_codes.SUCCESS ELSE exit_codes.VALIDATION_ERROR

\* The steps of the stored workflows that are HttpCall effects naming a
\* service for which the store has no Service intent: pairs of document id and
\* step position (positions are numbered from 1, the paths from 0).
UnknownServiceSteps(S) ==
    {<<d, i>> \in UNION {{d} \X DOMAIN S.by_id[d].spec.steps :
                             d \in {x \in DOMAIN S.by_id :
                                       S.by_id[x].kind = "Workflow" /\ S.by_id[x].spec.ok}} :
        LET step == S.by_id[d].spec.steps[i] IN
        /\ step.kind = "Effect" /\ step.effect = "HttpCall" /\ IsSome(step.service)
        /\ ~IsSome(get_by_kind_name(S, "Service", Unwrap(step.service)))}

\* C23: when step i of a workflow is an HttpCall effect naming a service for
\* which the store has no Service intent, validate exits 2 and the result
\* holds an E005 error whose location path is $.spec.steps[i].service.
C23_UnknownServiceLocated ==
    ret.op = "validate" =>
        \A p \in UnknownServiceSteps(Store) :
            /\ cmd_validate_code(ret.out) = exit_codes.VALIDATION_ERROR
            /\ \E k \in DOMAIN ret.out.errors :
                  /\ ret.out.errors[k].code = "E005"
                  /\ ret.out.errors[k].path =
                        Some(<<"$.spec.steps[", ToString(p[2] - 1), "].service">>)

(***************************************************************************)
(* Patches (parser/loader.rs apply_patch, cli/commands.rs cmd_patch_apply) *)
(* A patch document is the sequence of its operations; an operation holds  *)
(* its action ("unknown" when the document gives none), its target and     *)
(* the Option of its content.                                              *)
(***************************************************************************)
PatchOp(action, target, content) == [action |-> action, target |-> target, content |-> content]

\* PatchOperation
PatchOperation(action, target) == [action |-> action, target |-> target]

\* std::fs::write and std::fs::remove_file under .intent/model.
WriteModel(D, path, text) ==
    [D EXCEPT !.model = [q \in DOMAIN D.model \cup {path} |->
                            IF q = path THEN text ELSE D.model[q]]]
RemoveModel(D, path) ==
    [D EXCEPT !.model = [q \in DOMAIN D.model \ {path} |-> D.model[q]]]

\* The body of the loop of apply_patch as it would be if it applied the
\* operation in a dry run too.
apply_op_in_dry_run_too(op, dry_run, st) ==
    LET pushed == [st EXCEPT !.operations = Append(st.operations,
                                                   PatchOperation(op.action, op.target))] IN
    CASE op.action = "create" ->
            IF IsSome(op.content)
            THEN [pushed EXCEPT !.disk = WriteModel(st.disk, op.target,
                                                    pretty_canonical(Unwrap(op.content)))]
            ELSE pushed
      [] op.action = "update" ->
            IF ~IsSome(op.content) THEN pushed
            ELSE IF op.target \notin DOMAIN st.disk.model
            THEN [pushed EXCEPT !.conflicts = Append(st.conflicts,
                                                     <<"File not found", op.target>>)]
            ELSE [pushed EXCEPT !.disk = WriteModel(st.disk, op.target,
                                                    pretty_canonical(Unwrap(op.content)))]
      [] op.action = "delete" ->
            IF op.target \in DOMAIN st.disk.model
            THEN [pushed EXCEPT !.disk = RemoveModel(st.disk, op.target)]
            ELSE pushed
      [] OTHER -> [pushed EXCEPT !.conflicts = Append(st.conflicts,
                                                      <<"Unknown action", op.action>>)]

\* The body of the loop of apply_patch for the operation op; st holds the
\* PatchResult and the project directory.
apply_op(op, dry_run, st) ==
    LET pushed == [st EXCEPT !.operations = Append(st.operations,
                                                   PatchOperation(op.action, op.target))] IN
    IF dry_run THEN pushed
    ELSE
    CASE op.action = "create" ->
            IF IsSome(op.content)
            THEN [pushed EXCEPT !.disk = WriteModel(st.disk, op.target,
                                                    pretty_canonical(Unwrap(op.content)))]
            ELSE pushed
      [] op.action = "update" ->
            IF ~IsSome(op.content) THEN pushed
            ELSE IF op.target \notin DOMAIN st.disk.model
            THEN [pushed EXCEPT !.conflicts = Append(st.conflicts,
                                                     <<"File not found", op.target>>)]
            ELSE [pushed EXCEPT !.disk = WriteModel(st.disk, op.target,
                                                    pretty_canonical(Unwrap(op.content)))]
      [] op.action = "delete" ->
            IF op.target \in DOMAIN st.disk.model
            THEN [pushed EXCEPT !.disk = RemoveModel(st.disk, op.target)]
            ELSE pushed
      [] OTHER -> [pushed EXCEPT !.conflicts = Append(st.conflicts,
                                                      <<"Unknown action", op.action>>)]

\* The loop of apply_patch over the operations ops[i..].
RECURSIVE apply_ops(_, _, _, _)
apply_ops(ops, i, dry_run, st) ==
    IF i > Len(ops) THEN st
    ELSE apply_ops(ops, i + 1, dry_run, apply_op(ops[i], dry_run, st))

\* apply_patch of a patch document that was read and parsed.
apply_patch(D, patch, dry_run) ==
    apply_ops(patch, 1, dry_run, [operations |-> <<>>, conflicts |-> <<>>, disk |-> D])

\* cmd_patch_apply: what it returns and the directory after it.
cmd_patch_apply(D, patch, dry_run) ==
    LET result == apply_patch(D, patch, dry_run) IN
    [ret |-> [op |-> "patch", dry_run |-> dry_run, patch |-> patch, err |-> FALSE,
              code |-> IF result.conflicts = <<>> THEN exit_codes.SUCCESS
                       ELSE exit_codes.PATCH_CONFLICT,
              operations |-> result.operations, conflicts |-> result.conflicts],
     disk |-> result.disk]

(***************************************************************************)
(* SpecPatch: intent files are written into the project and patches are    *)
(* applied to it, for real and in dry runs                                 *)
(***************************************************************************)
\* Bound: the number of operations of a patch document.
MaxOps == 2

\* The files patches and authors touch.
PatchFiles == {1, 2}

PatchOps ==
    {PatchOp(a, t, c) : a \in {"create", "update", "delete", "unknown"}, t \in PatchFiles,
                        c \in {None, Some(ProjectPool[5])}}

Patches == UNION {[1..n -> PatchOps] : n \in 0..MaxOps}

WritePatchFile == WriteFile(PatchFiles)

\* One run of `intent patch apply`, with or without --dry-run.
PatchApply ==
    \E patch \in Patches, dry_run \in BOOLEAN :
        /\ ret' = cmd_patch_apply(disk, patch, dry_run).ret
        /\ disk' = cmd_patch_apply(disk, patch, dry_run).disk
        /\ UNCHANGED storeVars

NextPatch == WritePatchFile \/ PatchApply

SpecPatch == InitStore /\ [][NextPatch]_vars

\* The patch has an update operation with a content whose target is not in
\* the directory D and is the target of no other operation of the patch.
UpdatesMissing(D, patch, k) ==
    /\ patch[k].action = "update" /\ IsSome(patch[k].content)
    /\ patch[k].target \notin DOMAIN D.model
    /\ \A j \in DOMAIN patch : j # k => patch[j].target # patch[k].target

\* C24: for a patch document with an update operation whose target file does
\* not exist, patch apply records a conflict, exits 4 and does not create the
\* target file, whether or not --dry-run is given; and a patch whose
\* operations all apply without a conflict exits 0.
C24_UpdateOfMissingConflicts ==
    [][ret'.op = "patch" =>
          /\ \A k \in DOMAIN ret'.patch :
                UpdatesMissing(disk, ret'.patch, k) =>
                    /\ ret'.conflicts # <<>>
                    /\ ret'.code = exit_codes.PATCH_CONFLICT
                    /\ ret'.patch[k].target \notin DOMAIN disk'.model
          /\ (ret'.conflicts = <<>>) => (ret'.code = exit_codes.SUCCESS)]_vars

\* C30: patch apply with --dry-run leaves the model directory unchanged for
\* every patch document (no file created, overwritten or deleted) and still
\* lists every operation of the patch, in order, in its result.
C30_DryRunLeavesModel ==
    [][(ret'.op = "patch" /\ ret'.dry_run) =>
          /\ disk' = disk
          /\ ret'.operations = [k \in DOMAIN ret'.patch |->
                                   PatchOperation(ret'.patch[k].action,
                                                  ret'.patch[k].target)]]_vars

\* A dry run of a patch that deletes the first file and creates the second,
\* in a project that holds the first file only.
C30_Witness ==
    /\ ret.op = "patch" /\ ret.dry_run
    /\ Len(ret.patch) = 2
    /\ ret.patch[1].action = "delete" /\ ret.patch[1].target = 1
    /\ ret.patch[2].action = "create" /\ ret.patch[2].target = 2 /\ IsSome(ret.patch[2].content)
    /\ DOMAIN disk.model = {1}
    /\ Len(ret.operations) = 2

(***************************************************************************)
(* SpecGenSteps: generate_all call by call.  Every file-system call of     *)
(* generate_all is followed by `?`, so a run performs a prefix of its      *)
(* calls: all of them, or those before the first one that fails.           *)
(***************************************************************************)
\* std::fs::create_dir_all of the parent directory of a path, and
\* std::fs::write of a file of the gen directory or of .intent/locks.
CreateDirAll(child) == [call |-> "create_dir_all", parent_of |-> child]
FsWrite(area, path, content) ==
    [call |-> "write", area |-> area, path |-> path, content |-> content]

\* A variant of write_or_check_calls that writes in check mode too.
write_or_check_calls_unconditional(job, check_only) ==
    <<CreateDirAll(job.path), FsWrite("gen", job.path, job.content)>>

\* The file-system calls of write_or_check that change the directory.
write_or_check_calls(job, check_only) ==
    IF check_only THEN <<>>
    ELSE <<CreateDirAll(job.path), FsWrite("gen", job.path, job.content)>>

\* write_manifest, write_trace_map and write_obligations_lock.
write_lock_calls(file, value) ==
    <<CreateDirAll(file), FsWrite("locks", file, to_string_pretty(value))>>

\* A variant of generate_all_calls that writes the lock files first.
generate_all_calls_locks_first(S, check_only, o, ob) ==
    LET jobs == GenJobs(S, IntentConfig_load, o)
        st == run_jobs(jobs, 1, TRUE, [gen |-> EmptyFn, result |-> GenerationResult_new,
                                       manifest |-> GenManifest_new]) IN
    (IF check_only THEN <<>>
     ELSE write_lock_calls("gen-manifest.json", st.manifest) \o
          write_lock_calls("trace-map.json", generate_trace_map(S, o.docs)) \o
          write_lock_calls("obligations.json", check_obligations(S, ob))) \o
    Flatten([k \in DOMAIN jobs |-> write_or_check_calls(jobs[k], check_only)])

\* The file-system calls of generate_all that change the directory, in order.
generate_all_calls(S, check_only, o, ob) ==
    LET jobs == GenJobs(S, IntentConfig_load, o)
        st == run_jobs(jobs, 1, TRUE, [gen |-> EmptyFn, result |-> GenerationResult_new,
                                       manifest |-> GenManifest_new]) IN
    (IF check_only THEN <<>>
     ELSE <<CreateDirAll(GenFile("gen/src/endpoints/", <<>>)),
            CreateDirAll(GenFile("gen/src/workflows/", <<>>)),
            CreateDirAll(GenFile("gen/src/effects/", <<>>))>>) \o
    Flatten([k \in DOMAIN jobs |-> write_or_check_calls(jobs[k], check_only)]) \o
    (IF check_only THEN <<>>
     ELSE write_lock_calls("gen-manifest.json", st.manifest) \o
          write_lock_calls("trace-map.json", generate_trace_map(S, o.docs)) \o
          write_lock_calls("obligations.json", check_obligations(S, ob)))

\* The directory after one call; directories hold no content of their own.
apply_call(D, c) ==
    IF c.call = "create_dir_all" THEN D
    ELSE IF c.area = "gen"
    THEN [D EXCEPT !.gen = [q \in DOMAIN D.gen \cup {c.path} |->
                               IF q = c.path THEN c.content ELSE D.gen[q]]]
    ELSE [D EXCEPT !.locks = [q \in DOMAIN D.locks \cup {c.path} |->
                                 IF q = c.path THEN c.content ELSE D.locks[q]]]

RECURSIVE apply_calls(_, _)
apply_calls(calls, D) ==
    IF calls = <<>> THEN D ELSE apply_calls(Tail(calls), apply_call(D, Head(calls)))

\* The files of the project of SpecGenSteps: a type and a workflow over it.
StepFiles == {1, 3}

\* Bound: a behaviour is followed up to its first run that fails.
RunFailed == ret.op = "generate_all" /\ ret.failed

WriteStepFile == ~RunFailed /\ WriteFile(StepFiles)

\* One run of cmd_gen that reaches generate_all, which performs the first n
\* of its calls.  A write-mode run fails iff it stops before its last call; a
\* check-mode run can fail on a read.
GenerateAll ==
    \E check \in BOOLEAN, failed \in BOOLEAN :
        \E L \in Loads(disk) :
            \E o \in Orders(L.store) :
                \E ob \in ObligationDraws(L.store) :
                    /\ ~RunFailed
                    /\ L.ok
                    /\ validate_all(L.store, o).errors = <<>>
                    /\ LET jobs == GenJobs(L.store, IntentConfig_load, o)
                           calls == generate_all_calls(L.store, check, o, WithDocs(ob, o.docs)) IN
                       \E n \in 0..Len(calls) :
                           /\ (n < Len(calls)) => failed
                           /\ (failed /\ ~check) => (n < Len(calls))
                           /\ ret' = [op |-> "generate_all", check |-> check,
                                      failed |-> failed,
                                      paths |-> {jobs[k].path : k \in DOMAIN jobs},
                                      calls |-> SubSeq(calls, 1, n)]
                           /\ disk' = apply_calls(SubSeq(calls, 1, n), disk)
                           /\ UNCHANGED storeVars

NextGenSteps == WriteStepFile \/ GenerateAll

SpecGenSteps == InitStore /\ [][NextGenSteps]_vars

\* The positions of the calls of a run that write a file of an area.
WritesOf(calls, area) ==
    {k \in DOMAIN calls : calls[k].call = "write" /\ calls[k].area = area}

\* C25: a check-mode generate leaves the file system as it was: it makes no
\* create_dir_all call and no write call, so no file of gen/ and none of
\* gen-manifest.json, trace-map.json and obligations.json is created or changed.
C25_CheckModeLeavesFilesystem ==
    [][(ret'.op = "generate_all" /\ ret'.check) =>
          (disk' = disk /\ ret'.calls = <<>>)]_vars

\* A check-mode generate ran on a project whose gen directory lacks a file that
\* generation produces.
C25_Witness ==
    /\ ret.op = "generate_all" /\ ret.check
    /\ DOMAIN disk.model = StepFiles
    /\ ret.paths \ DOMAIN disk.gen # {}

\* C26: in a write-mode generate a lock file is written only after every
\* generated file has been written, the manifest before the trace map and the
\* trace map before the obligations; a run in which the write of a generated
\* file fails writes no lock file.
C26_LocksAfterGeneratedFiles ==
    (ret.op = "generate_all" /\ ~ret.check) =>
        LET calls == ret.calls
            At(file) == {k \in WritesOf(calls, "locks") : calls[k].path = file} IN
        /\ \A k \in WritesOf(calls, "locks") :
              \A p \in ret.paths :
                  \E i \in WritesOf(calls, "gen") : i < k /\ calls[i].path = p
        /\ \A k \in At("trace-map.json") : \E i \in At("gen-manifest.json") : i < k
        /\ \A k \in At("obligations.json") : \E i \in At("trace-map.json") : i < k
        /\ \A k \in WritesOf(calls, "locks") :
              calls[k].path \in {"gen-manifest.json", "trace-map.json", "obligations.json"}
        /\ (ret.failed /\ \E p \in ret.paths :
                             \A i \in WritesOf(calls, "gen") : calls[i].path # p)
              => WritesOf(calls, "locks") = {}

\* A write-mode generate failed after writing some generated files but not all
\* of them, on a project that holds the lock files of an earlier run.
C26_Witness ==
    /\ ret.op = "generate_all" /\ ~ret.check /\ ret.failed
    /\ WritesOf(ret.calls, "gen") # {}
    /\ \E p \in ret.paths : \A i \in WritesOf(ret.calls, "gen") : ret.calls[i].path # p
    /\ "obligations.json" \in DOMAIN disk.locks


\* C27: an add that fails, on a duplicate id or on a duplicate (kind, name),
\* leaves by_id, by_kind_name and by_name as they were before the call, so every
\* document added before is still returned, unchanged, by get and by
\* get_by_kind_name.
C27_FailedAddLeavesStore ==
    [][(ret'.op = "add" /\ ~ret'.ok) =>
          /\ by_id' = by_id /\ by_kind_name' = by_kind_name /\ by_name' = by_name
          /\ \A d \in StoreDocs(Store) :
                /\ get(Store', d.id) = Some(d)
                /\ get_by_kind_name(Store', d.kind, d.name) = Some(d)]_vars

\* An add was rejected for its id by a store of two documents, the document
\* offered differing from the one that holds the id.
C27_Witness ==
    /\ ret.op = "add" /\ ~ret.ok /\ ret.err = "DuplicateId"
    /\ len(Store) = 2
    /\ ret.doc # by_id[ret.doc.id]

\* validate_all reports an error on the project directory D, whichever way the
\* files are loaded and the store is iterated.
ValidationReportsErrors(D) ==
    \A L \in Loads(D) :
        L.ok /\ \A o \in Orders(L.store) : validate_all(L.store, o).errors # <<>>

\* C28: when validate_all reports an error, cmd_gen returns exit code 2 without
\* calling the generator, in write mode and in check mode: no generated file
\* and no lock file is written or compared.
C28_GenValidatesFirst ==
    [][(ret'.op = "gen" /\ ValidationReportsErrors(disk)) =>
          /\ ret'.code = exit_codes.VALIDATION_ERROR /\ ~ret'.err
          /\ ret'.steps = <<"load", "validate">>
          /\ ret'.files = <<>>
          /\ disk' = disk]_vars

\* A write-mode gen returned the validation exit code on a project that holds
\* the generated files and lock files of an earlier run.
C28_Witness ==
    /\ ret.op = "gen" /\ ~ret.check
    /\ ret.code = exit_codes.VALIDATION_ERROR
    /\ ValidationReportsErrors(disk)
    /\ DOMAIN disk.gen # {} /\ DOMAIN disk.locks # {}

\* C29: for every intent held by both stores whose spec differs between base
\* and current, whatever its kind, compute_diff emits at least one change
\* attributed to that intent.
C29_EverySpecChangeReported ==
    (ret.op = "diff" /\ ~ret.err) =>
        LET B == DiffBase.by_id
            C == DiffCurrent.by_id
            cs == ret.result.changes IN
        \A i \in DOMAIN B \cap DOMAIN C :
            (B[i].spec # C[i].spec) =>
                \E k \in DOMAIN cs :
                    /\ cs[k].intent_name = Some(C[i].name)
                    /\ cs[k].intent_kind = Some(C[i].kind)
============================================================================
